---- MODULE Spec2Model ----
(***************************************************************************)
(* Chunk exploration (src/src/chunks.rs) and adaptive subdivision          *)
(* (src/src/chunks/subdivision.rs) of bevy_voxels.                         *)
(*                                                                         *)
(* Lengths are fixed-point integers in sixteenths of a world unit, so      *)
(* 0.25 is 4, 0.5 is 8, 1.0 is 16 and a chunk of size 4 is 64.  Every size *)
(* the program computes is a power of two times 0.125, so halving is exact *)
(* in f32 as it is here.  Sizes stored in a Cube carry the 1.175 oversize  *)
(* factor and are kept in thousandths of a sixteenth (size * 1175).        *)
(***************************************************************************)
EXTENDS Integers, Sequences, FiniteSets, TLC

VARIABLES
    field,      \* parameters of the occupancy field (the DataGenerator)
    world,      \* what chunk_render returns at each chunk coordinate under field
    pc,         \* position of chunk_search: "loop", "done"; "sub" in SubSpec
    queue,      \* VecDeque of chunk coordinates
    visited,    \* indices <<i, j, k>> of the visited array that hold true
    chunks,     \* Vec<Chunk>
    total,      \* chunks.len() as printed
    cubes,      \* sum of n_cubes as printed
    triangles,  \* sum of n_triangles as printed
    popped,     \* history: coordinates popped from the queue, in order
    pushes,     \* history: number of push_back/extend insertions into queue
    rendered,   \* history: coordinates chunk_render was run for, in order
    blocked,    \* history: coordinates whose chunk was classified blocking
    sources,    \* history: popped coordinates that generated a neighbour
    accessed,   \* history: the indices visited and new_visited were read or written at
    sub_in,     \* SubSpec: the arguments of the subdivide_cube call
    sub_out,    \* SubSpec: its result and call trace, or NoResult
    mesh,       \* MeshSpec: the state of generate_mesh_data and cubes_mesh
    config,     \* ConfigSpec: the constants of the build and chunk_search's first steps
    rc,         \* RaySpec: the state of one raycast_mesh call
    par,        \* ParSpec: the 8 child tasks of one subdivide_cube call
    wave,       \* WaveSpec: the results collected during the current wave
    cull,       \* CullSpec: the state of one perform_raycasts call
    sample      \* SampleSpec: a Data2D sample, a point and what the generator returned

vars == <<field, world, pc, queue, visited, chunks, total, cubes, triangles,
          popped, pushes, rendered, blocked, sources, accessed, sub_in, sub_out, mesh,
          config, rc, par, wave, cull, sample>>

(***************************************************************************)
(* Program constants                                                       *)
(***************************************************************************)
\* in world units
CHUNK_SIZE == 4
\* in chunks
RENDER_DISTANCE == 3
\* 0.25 world units, in sixteenths
SMALLEST_CUBE_SIZE == 4

\* world units to sixteenths
Fx(w) == 16 * w

(***************************************************************************)
(* Bounds of the model                                                     *)
(***************************************************************************)
\* room_size ranges over RoomSizeOf(0..MaxRoom)
MaxRoom == 3
\* room_position[0] ranges over Fx(8) * (0..MaxRoomX)
MaxRoomX == 1
\* corridor_width ranges over Fx(1) * (0..MaxCorridor)
MaxCorridor == 1
\* SubSpec: initial cube sizes are SMALLEST_CUBE_SIZE * 2^(0..MaxSizeExp)
MaxSizeExp == 4
\* SubSpec: cube centres have x and z in Fx(CHUNK_SIZE) * (-MaxCentre..MaxCentre)
MaxCentre == 1
\* faces perform_raycasts drops per cube range over 0..MaxFacesCulled
MaxFacesCulled == 0
\* MeshSpec: cube lists have 1..MaxCubes cubes
MaxCubes == 2
\* ConfigSpec: RENDER_DISTANCE ranges over 0..MaxConfigDistance
MaxConfigDistance == 3
\* ConfigSpec: CHUNK_SIZE ranges over 1..MaxConfigChunk world units
MaxConfigChunk == 4
\* ConfigSpec: SMALLEST_CUBE_SIZE ranges over 0.25 * 2^(0..MaxConfigExp)
MaxConfigExp == 5
\* RaySpec: 1..MaxRayCubes cubes out of MaxRayCubes + 1 placed in a row
MaxRayCubes == 2
\* CullSpec: perform_raycasts is given 1..MaxCullCubes cubes
MaxCullCubes == 2
\* WaveSpec: the number of waves a run is followed for
MaxWaves == 3
\* SubSpec: cubes of at most one world unit have centre coordinates within
\* MaxFine sixteenths of the origin
MaxFine == 12

\* the element of a singleton.  The({ e(v) : v \in { x } }) is e(x) with x
\* evaluated once, however often e reads it
The(S) == CHOOSE v \in S : TRUE

abs(v) == IF v < 0 THEN -v ELSE v
min(a, b) == IF a < b THEN a ELSE b
max(a, b) == IF a > b THEN a ELSE b

RECURSIVE Pow2(_)
Pow2(n) == IF n = 0 THEN 1 ELSE 2 * Pow2(n - 1)

RECURSIVE Log2(_)
Log2(n) == IF n <= 1 THEN 0 ELSE 1 + Log2(n \div 2)

(***************************************************************************)
(* Field generator.  The noise channels are inputs: a field fixes the      *)
(* room centre, the room radius, the corridor width and the floor and      *)
(* ceiling falloff, which the program derives from OpenSimplex noise.      *)
(***************************************************************************)
RoomSizeOf(k) == Fx(6) * k * k * k

Fields ==
    [ room_x         : { Fx(8) * k : k \in 0..MaxRoomX },
      room_size      : { RoomSizeOf(k) : k \in 0..MaxRoom },
      corridor_width : { Fx(1) * k : k \in 0..MaxCorridor },
      room_floor     : {4},
      room_ceiling   : {2},
      elevation      : {0},
      faces_hit      : { 6 - c : c \in 0..MaxFacesCulled } ]

\* stand-in for get_world_noise2d(offset, scale, x, z): a channel value in
\* thousandths, 0..1000, that depends on the channel and on the column
get_world_noise2d(offset, x, z) == ((offset * 37 + x * 3 + z * 5) % 11) * 100

FloorMaterial == { "Stone", "Sand", "Moss", "Dirt" }

\* lines 164-178, all quantities in thousandths
floor_material_of(temperature, humidity, floor_variance1, floor_variance2, noise_offset) ==
    IF temperature > 600 + noise_offset /\ humidity < 400 + noise_offset
    THEN "Sand"
    ELSE IF /\ humidity > 500 + noise_offset
            /\ floor_variance1 > 300 + noise_offset
            /\ floor_variance1 - floor_variance2 > 50 + noise_offset
    THEN "Moss"
    ELSE IF /\ humidity > 500 + noise_offset
            /\ \/ floor_variance1 - floor_variance2 \div 2 > 50 + noise_offset
               \/ floor_variance2 + noise_offset < 300
    THEN "Dirt"
    ELSE "Stone"

\* lines 91-99 with calcium, graphite and iron in thousandths
rock_color_of(calcium, graphite, iron) ==
    << (calcium * 8 - graphite * 5 + iron * 3) \div 10,
       (calcium * 16 - graphite * 10 + iron) \div 20,
       (calcium * 8 - graphite * 5) \div 10 >>

\* the surface channels of lines 86-94 and 158-161, in thousandths; they are
\* noise the occupancy does not read, and are held at one value per run
Surface ==
    [ temperature |-> 700, humidity |-> 300, lushness |-> 400,
      calcium |-> 600, graphite |-> 200, iron |-> 500,
      floor_variance1 |-> 400, floor_variance2 |-> 150, floor_variance3 |-> 400,
      noise_offset |-> 10 ]

SurfaceRock == rock_color_of(Surface.calcium, Surface.graphite, Surface.iron)

SurfaceMaterial ==
    floor_material_of(Surface.temperature, Surface.humidity, Surface.floor_variance1,
                      Surface.floor_variance2, Surface.noise_offset)

get_data_2d(f, x, z) ==
    [ room_position  |-> <<f.room_x, 0>>,
      room_size      |-> f.room_size,
      corridor_width |-> f.corridor_width,
      corridor_dist  |-> abs(min(abs(x - f.room_x), z - 0)),
      room_floor     |-> f.room_floor,
      room_ceiling   |-> f.room_ceiling,
      elevation      |-> f.elevation,
      lushness       |-> Surface.lushness,
      rock_color     |-> SurfaceRock,
      floor_material |-> SurfaceMaterial,
      floor_variance1 |-> Surface.floor_variance1,
      floor_variance3 |-> Surface.floor_variance3 ]

\* TRUE when the point is air.  Both distances are compared squared; the
\* corridor comparison is scaled by 4 to keep y * h / 2 integral.
get_data_3d(data2d, x, z, y) ==
    LET room_height_smooth == IF y < 0 THEN data2d.room_floor ELSE data2d.room_ceiling
        yh == y * room_height_smooth
        room_dist_3d_sq == (x - data2d.room_position[1]) * (x - data2d.room_position[1])
                           + (z - data2d.room_position[2]) * (z - data2d.room_position[2])
                           + yh * yh
        room_inside_3d == room_dist_3d_sq < data2d.room_size * data2d.room_size
        corridor_dist_3d_sq4 == 4 * data2d.corridor_dist * data2d.corridor_dist + yh * yh
        corridor_inside_3d ==
            corridor_dist_3d_sq4 < 4 * data2d.corridor_width * data2d.corridor_width
    IN  room_inside_3d \/ corridor_inside_3d

\* stand-in for OpenSimplex get_noise2d, scaled by 0.2: a jitter of at most
\* 3 sixteenths (0.2 world units is 3.2 sixteenths)
get_noise2d(a, b) == ((7 * a + 13 * b) % 7) - 3

\* stand-in for get_noise(x) scaled by 0.1: thousandths, -100..100
get_noise(a) == ((a % 5) - 2) * 50

\* lines 11-14, arguments and result in thousandths
smoothstep(edge0, edge1, x) ==
    LET t == max(0, min(1000, ((x - edge0) * 1000) \div (edge1 - edge0)))
    IN  (t * t * (3000 - 2 * t)) \div 1000000

\* Vec3 + f32, Vec3 + Vec3 and Vec3::lerp(self * 0.5, s), in thousandths
Plus(color, shade) == << color[1] + shade, color[2] + shade, color[3] + shade >>
Add3(a, b) == << a[1] + b[1], a[2] + b[2], a[3] + b[3] >>
Darkened(color, s) ==
    << color[1] - (color[1] * s) \div 2000,
       color[2] - (color[2] * s) \div 2000,
       color[3] - (color[3] * s) \div 2000 >>

\* lines 223-235: the colour before the floor block.  y is in sixteenths, so
\* y / 50.0 is y * 5 / 4 thousandths.
rock_shade(data2d, x, z, y) ==
    LET shaded == Plus(Plus(data2d.rock_color, (y * 5) \div 4),
                       100 + get_noise(y * 20 + z))
        noise_color == 500 + get_world_noise2d(0, x, z) \div 2
        browned == Add3(shaded, << noise_color \div 10, noise_color \div 20, 0 >>)
    IN  IF data2d.floor_variance3 < 500
        THEN Darkened(browned, smoothstep(500, 300, data2d.floor_variance3))
        ELSE browned

\* the floor block of lines 237-258 as it reads without the comment marks:
\* sand and dirt floors and moss take their own colour
floor_colored(data2d, color, y) ==
    LET color_variance == (data2d.floor_variance1 * 15) \div 100
        floor == IF y < Fx((data2d.room_floor - 4) * 4 - 2)
                 THEN CASE data2d.floor_material = "Sand" ->
                               << 1000 + color_variance, 900 + color_variance,
                                  600 + color_variance >>
                        [] data2d.floor_material = "Dirt" ->
                               << 600 + color_variance, 300 + color_variance,
                                  50 + color_variance >>
                        [] OTHER -> color
                 ELSE color
    IN  IF data2d.floor_material = "Moss"
        THEN << 300 - data2d.lushness \div 10 + color_variance,
                400 + color_variance,
                100 + data2d.lushness \div 20 + color_variance >>
        ELSE floor

get_data_color_with_floor_block(data2d, x, z, y) ==
    [ color        |-> floor_colored(data2d, rock_shade(data2d, x, z, y), y),
      pos_jittered |-> << x + get_noise2d(z, y), y + data2d.elevation, z + get_noise2d(x, y) >> ]

\* lines 221-271; the floor block (237-258) is commented out in the source
get_data_color(data2d, x, z, y) ==
    [ color        |-> rock_shade(data2d, x, z, y),
      pos_jittered |-> << x + get_noise2d(z, y), y + data2d.elevation, z + get_noise2d(x, y) >> ]

(***************************************************************************)
(* Adaptive subdivider                                                     *)
(***************************************************************************)
render_cube(data2d, pos, size) ==
    [ pos  |-> get_data_color(data2d, pos[1], pos[3], pos[2]).pos_jittered,
      size |-> size * 1175 ]

\* the table without the row for 0.25
max_air_cubes_without_smallest(cube_size) ==
    IF cube_size = 8 THEN 2
    ELSE IF cube_size = 16 THEN 1
    ELSE 0

max_air_cubes(cube_size) ==
    IF cube_size = 4 THEN 4
    ELSE IF cube_size = 8 THEN 2
    ELSE IF cube_size = 16 THEN 1
    ELSE 0

Signs == {-1, 1}

\* the 8 corner samples of lines 56-66: how many are air
n_air_cubes(f, cube_pos, half_cube_size) ==
    Cardinality({ s \in Signs \X Signs \X Signs :
        LET x == cube_pos[1] + s[1] * half_cube_size
            z == cube_pos[3] + s[2] * half_cube_size
            y == cube_pos[2] + s[3] * half_cube_size
        IN  get_data_3d(get_data_2d(f, x, z), x, z, y) })

\* the early return is taken for no corner count
fully_air_above_8(n_air) == n_air > 8

fully_air(n_air) == n_air = 8

\* the leaf test compares against half the smallest size
below_leaf_size_halved(half_cube_size) == half_cube_size < SMALLEST_CUBE_SIZE \div 2

below_leaf_size(half_cube_size) == half_cube_size < SMALLEST_CUBE_SIZE

\* the y offset is taken from the bit of the z offset
corner_pos_y_from_z_bit(cube_pos, quarter_cube_size, i) ==
    << cube_pos[1] + ((i % 2) * 2 - 1) * quarter_cube_size,
       cube_pos[2] + (((i \div 2) % 2) * 2 - 1) * quarter_cube_size,
       cube_pos[3] + (((i \div 2) % 2) * 2 - 1) * quarter_cube_size >>

\* centre of child i of lines 82-86
corner_pos(cube_pos, quarter_cube_size, i) ==
    << cube_pos[1] + ((i % 2) * 2 - 1) * quarter_cube_size,
       cube_pos[2] + (((i \div 4) % 2) * 2 - 1) * quarter_cube_size,
       cube_pos[3] + (((i \div 2) % 2) * 2 - 1) * quarter_cube_size >>

\* A call's result with its trace: the cubes returned, the number of
\* recursive subdivide_cube calls made below it, the number of leaf samples
\* (lines 91-92), the longest chain of nested recursive calls and the sizes
\* the recursive calls were given.  A child's result also names the child:
\* its centre (at) and size as the closure of lines 81-105 computed them.
Returned(cs) ==
    [ cubes |-> cs, calls |-> 0, leaves |-> 0, depth |-> 0, call_sizes |-> {},
      at |-> << >>, size |-> 0 ]

RECURSIVE subdivide_cube(_, _, _)

\* a recursive call's result seen from the caller: one more call, one level deeper
Nested(r, c_pos, size) ==
    [ cubes |-> r.cubes,
      calls |-> r.calls + 1,
      leaves |-> r.leaves,
      depth |-> r.depth + 1,
      call_sizes |-> r.call_sizes \cup {size},
      at |-> c_pos,
      size |-> size ]

\* the results rs[1..8] of the 8 children, collected in index order
Joined(rs) ==
    [ cubes |-> rs[1].cubes \o rs[2].cubes \o rs[3].cubes \o rs[4].cubes
                \o rs[5].cubes \o rs[6].cubes \o rs[7].cubes \o rs[8].cubes,
      calls |-> rs[1].calls + rs[2].calls + rs[3].calls + rs[4].calls
                + rs[5].calls + rs[6].calls + rs[7].calls + rs[8].calls,
      leaves |-> rs[1].leaves + rs[2].leaves + rs[3].leaves + rs[4].leaves
                 + rs[5].leaves + rs[6].leaves + rs[7].leaves + rs[8].leaves,
      depth |-> CHOOSE d \in { rs[i].depth : i \in 1..8 } :
                    \A i \in 1..8 : rs[i].depth <= d,
      call_sizes |-> UNION { rs[i].call_sizes : i \in 1..8 },
      at |-> << >>,
      size |-> 0 ]

\* lines 91-100: the child is sampled once at its centre
leaf_sample_code(f, c_pos, half_cube_size) ==
    LET data2d == get_data_2d(f, c_pos[1], c_pos[3])
        is_inside == get_data_3d(data2d, c_pos[1], c_pos[3], c_pos[2])
    IN  [ cubes |-> IF ~is_inside
                    THEN << render_cube(data2d, c_pos, half_cube_size) >>
                    ELSE << >>,
          calls |-> 0, leaves |-> 1, depth |-> 0, call_sizes |-> {},
          at |-> c_pos, size |-> half_cube_size ]

\* the leaf cube is given the quarter size instead of the half size
leaf_sample_quarter(f, c_pos, half_cube_size) ==
    leaf_sample_code(f, c_pos, half_cube_size \div 2)

leaf_sample(f, c_pos, half_cube_size) == leaf_sample_code(f, c_pos, half_cube_size)

\* the closure of lines 81-105 for child i
subdivide_child(f, cube_pos, cube_size, i) ==
    IF below_leaf_size(cube_size \div 2)
    THEN leaf_sample(f, corner_pos(cube_pos, cube_size \div 4, i), cube_size \div 2)
    ELSE The({ Nested(r, c_pos, cube_size \div 2) :
                 r \in { subdivide_cube(f, corner_pos(cube_pos, cube_size \div 4, i),
                                        cube_size \div 2) },
                 c_pos \in { corner_pos(cube_pos, cube_size \div 4, i) } })

\* lines 79-106: flat_map over (0..8), collected in index order
subdivide_children(f, cube_pos, cube_size) ==
    The({ Joined(rs) :
            rs \in { << subdivide_child(f, cube_pos, cube_size, 0),
                        subdivide_child(f, cube_pos, cube_size, 1),
                        subdivide_child(f, cube_pos, cube_size, 2),
                        subdivide_child(f, cube_pos, cube_size, 3),
                        subdivide_child(f, cube_pos, cube_size, 4),
                        subdivide_child(f, cube_pos, cube_size, 5),
                        subdivide_child(f, cube_pos, cube_size, 6),
                        subdivide_child(f, cube_pos, cube_size, 7) >> } })

\* lines 67-109, once the corners are counted
subdivide_counted(f, cube_pos, cube_size, n_air) ==
    IF fully_air(n_air) THEN Returned(<< >>)
    ELSE IF n_air <= max_air_cubes(cube_size)
    THEN Returned(<< render_cube(get_data_2d(f, cube_pos[1], cube_pos[3]),
                                 cube_pos, cube_size) >>)
    ELSE subdivide_children(f, cube_pos, cube_size)

subdivide_cube(f, cube_pos, cube_size) ==
    The({ subdivide_counted(f, pos, size, n_air) :
            n_air \in { n_air_cubes(f, cube_pos, cube_size \div 2) },
            pos \in { cube_pos },
            size \in { cube_size } })

(***************************************************************************)
(* Surface mesher, as far as chunk_render reads it: the triangle count.    *)
(* generate_mesh_data pushes 6 indices for each face perform_raycasts      *)
(* keeps; how many of a cube's 6 faces the ray casts keep is a parameter   *)
(* of the field (faces_hit), since it follows from the jittered geometry.  *)
(***************************************************************************)
cubes_mesh(f, cube_list) ==
    LET n_faces == f.faces_hit * Len(cube_list)
        n_indices == 6 * n_faces
    IN  n_indices \div 3

\* cubes_mesh is called whether or not there are cubes
chunk_of_always_meshed(f, chunk_pos, cube_list) ==
    [ mesh        |-> TRUE,
      chunk_pos   |-> chunk_pos,
      n_cubes     |-> Len(cube_list),
      n_triangles |-> cubes_mesh(f, cube_list),
      mesh_calls  |-> << Len(cube_list) >> ]

\* lines 24-35, once the cubes are there.  mesh is TRUE for Some(mesh);
\* mesh_calls lists the lengths of the cube lists cubes_mesh was called with.
chunk_of(f, chunk_pos, cube_list) ==
    [ mesh        |-> cube_list # << >>,
      chunk_pos   |-> chunk_pos,
      n_cubes     |-> Len(cube_list),
      n_triangles |-> IF cube_list = << >> THEN 0 ELSE cubes_mesh(f, cube_list),
      mesh_calls  |-> IF cube_list = << >> THEN << >> ELSE << Len(cube_list) >> ]

chunk_render(f, chunk_pos, chunk_size) ==
    The({ chunk_of(f, chunk_pos, cube_list) :
            cube_list \in { subdivide_cube(f, chunk_pos, chunk_size).cubes } })

(***************************************************************************)
(* Chunk explorer                                                          *)
(***************************************************************************)
directions ==
    << <<-1, 0, 0>>, <<1, 0, 0>>, <<0, -1, 0>>, <<0, 1, 0>>, <<0, 0, -1>>, <<0, 0, 1>> >>

normalised(c) ==
    << c[1] + RENDER_DISTANCE, c[2] + RENDER_DISTANCE, c[3] + RENDER_DISTANCE >>

\* the upper bound is taken one past the end of the array
is_out_of_bounds_past_end(n) ==
    \/ n[1] < 0
    \/ n[2] < 0
    \/ n[3] < 0
    \/ n[1] > RENDER_DISTANCE * 2 + 1
    \/ n[2] > RENDER_DISTANCE * 2 + 1
    \/ n[3] > RENDER_DISTANCE * 2 + 1

is_out_of_bounds(n) ==
    \/ n[1] < 0
    \/ n[2] < 0
    \/ n[3] < 0
    \/ n[1] > RENDER_DISTANCE * 2
    \/ n[2] > RENDER_DISTANCE * 2
    \/ n[3] > RENDER_DISTANCE * 2

\* the shared visited array is not consulted
is_visited_local_only(vis, new_visited, n) == n \in new_visited

is_visited(vis, new_visited, n) == n \in vis \/ n \in new_visited

\* distance >= RENDER_DISTANCE: the boundary of the envelope is cut off
beyond_render_distance_inclusive(neighbor) ==
    neighbor[1] * neighbor[1] + neighbor[2] * neighbor[2] + neighbor[3] * neighbor[3]
        >= RENDER_DISTANCE * RENDER_DISTANCE

\* distance > RENDER_DISTANCE, compared squared: the f32 square root of an
\* integer up to 27 exceeds 3.0 exactly when the integer exceeds 9
beyond_render_distance(neighbor) ==
    neighbor[1] * neighbor[1] + neighbor[2] * neighbor[2] + neighbor[3] * neighbor[3]
        > RENDER_DISTANCE * RENDER_DISTANCE

is_blocking(chunk) == chunk.n_cubes = 1

\* ExploreResult, with the trace of the call: the neighbours chunk_render ran
\* for (rendered), those of them classified blocking (blocking) and the
\* indices the two visited arrays were read or written at (accessed)
EmptyResult ==
    [ chunks |-> << >>, new_visited |-> {}, new_queue |-> << >>,
      rendered |-> << >>, blocking |-> {}, accessed |-> {} ]

\* lines 131-134: visited and new_visited are indexed with n
Indexed(acc, n) == [ acc EXCEPT !.accessed = @ \cup {n} ]

\* lines 147-155: the chunk_render call for chunk coordinate c.  chunk_render
\* is a function of the field and the position alone, so a run reads its
\* value for c from world, which Init tabulates for the field drawn.
chunk_at(f, c) ==
    chunk_render(f,
                 << Fx(c[1] * CHUNK_SIZE), Fx(c[3] * CHUNK_SIZE), Fx(c[2] * CHUNK_SIZE) >>,
                 Fx(CHUNK_SIZE))

\* the coordinates the visited array has an entry for
Coords == (-RENDER_DISTANCE..RENDER_DISTANCE) \X (-RENDER_DISTANCE..RENDER_DISTANCE)
              \X (-RENDER_DISTANCE..RENDER_DISTANCE)

\* the render-distance envelope: the coordinates within RENDER_DISTANCE of the
\* origin, the only ones the check of lines 137-141 lets chunk_render run for
Envelope ==
    { c \in Coords : c[1] * c[1] + c[2] * c[2] + c[3] * c[3]
                        <= RENDER_DISTANCE * RENDER_DISTANCE }

\* one iteration of the loop over directions (lines 109-166)
explore_direction(vis, w, chunk_xyz, direction, acc) ==
    LET neighbor == << chunk_xyz[1] + direction[1],
                       chunk_xyz[2] + direction[2],
                       chunk_xyz[3] + direction[3] >>
        neighbor_normalised == normalised(neighbor)
        chunk == w[neighbor]
        blocking == is_blocking(chunk)
    IN  IF is_out_of_bounds(neighbor_normalised) THEN acc
        ELSE IF is_visited(vis, acc.new_visited, neighbor_normalised)
             THEN Indexed(acc, neighbor_normalised)
        ELSE IF beyond_render_distance(neighbor)
             THEN Indexed(acc, neighbor_normalised)
        ELSE [ chunks      |-> IF chunk.n_cubes > 0
                               THEN Append(acc.chunks, chunk)
                               ELSE acc.chunks,
               new_visited |-> acc.new_visited \cup { neighbor_normalised },
               new_queue   |-> IF ~blocking
                               THEN Append(acc.new_queue, neighbor)
                               ELSE acc.new_queue,
               rendered    |-> Append(acc.rendered, neighbor),
               blocking    |-> IF blocking
                               THEN acc.blocking \cup {neighbor}
                               ELSE acc.blocking,
               accessed    |-> acc.accessed \cup { neighbor_normalised } ]

\* the loop over directions[k..6], from the result acc so far
RECURSIVE explore_directions(_, _, _, _, _)
explore_directions(vis, w, chunk_xyz, k, acc) ==
    IF k > Len(directions) THEN acc
    ELSE The({ explore_directions(vis, w, chunk_xyz, k + 1, next) :
                 next \in { explore_direction(vis, w, chunk_xyz, directions[k], acc) } })

explore_chunk(vis, w, chunk_xyz) ==
    explore_directions(vis, w, chunk_xyz, 1, EmptyResult)

\* visited is overwritten by new_visited instead of or-ed with it
merge_visited_replaced(vis, new_visited) == new_visited

\* the merge of new_visited is lost
merge_visited_dropped(vis, new_visited) == vis

\* visited[i][j][k] = new_visited[i][j][k] || visited[i][j][k]
merge_visited(vis, new_visited) == vis \cup new_visited

RECURSIVE SumOf(_, _, _)

\* the first chunk of the list is left out of the sum
SumOf_from_second(cs, key, n) ==
    IF n <= 1 THEN 0 ELSE cs[n][key] + SumOf(cs, key, n - 1)

\* the sum of field key over cs[1..n]
SumOf(cs, key, n) ==
    IF n = 0 THEN 0 ELSE cs[n][key] + SumOf(cs, key, n - 1)

(***************************************************************************)
(* SubSpec: one subdivide_cube call on a drawn field, centre and size      *)
(***************************************************************************)
\* the constants as the repository has them; chunk_search not started
ConfigIdle ==
    [ cfg |-> [ render_distance |-> RENDER_DISTANCE, chunk_size |-> CHUNK_SIZE,
                smallest_cube_size |-> SMALLEST_CUBE_SIZE ],
      at |-> "idle", visited_len |-> 0, queue |-> << >>, direction |-> 0, renders |-> 0 ]

\* the absent Option of raycast.rs
None == << >>

\* no raycast_mesh call under way
RayIdle ==
    [ origin |-> <<0, 0, 0>>, direction |-> <<0, 0, 1>>, faces |-> << >>, cursor |-> 0,
      closest_t |-> None, hit_face |-> None, tested |-> 0, skipped |-> 0 ]

\* no subdivide_cube call has spawned its children
ParIdle == [ at |-> "idle" ]

\* no wave under way
WaveIdle == [ at |-> "idle" ]

\* no perform_raycasts call under way
CullIdle == [ at |-> "idle" ]

\* no sample drawn
SampleIdle == [ at |-> "idle" ]

\* no cubes_mesh call under way
MeshIdle ==
    [ n_cubes |-> 0, faces |-> << >>, indices |-> << >>, positions |-> << >>,
      n_triangles |-> 0 ]

NoResult ==
    [ cubes |-> << >>, calls |-> -1, leaves |-> -1, depth |-> -1, call_sizes |-> {},
      at |-> << >>, size |-> 0 ]

Centres == { Fx(CHUNK_SIZE) * k : k \in -MaxCentre..MaxCentre }
\* below, on and above the plane y = 0, where the falloff factor changes
Heights == { -Fx(CHUNK_SIZE) \div 2, 0, Fx(CHUNK_SIZE) \div 2 }
Sizes == { SMALLEST_CUBE_SIZE * Pow2(e) : e \in 0..MaxSizeExp }

ExploreIdle ==
    /\ world = << >>
    /\ queue = << >>
    /\ visited = {}
    /\ chunks = << >>
    /\ total = 0
    /\ cubes = 0
    /\ triangles = 0
    /\ popped = << >>
    /\ pushes = 0
    /\ rendered = << >>
    /\ blocked = {}
    /\ sources = {}
    /\ accessed = {}

\* a room whose surface cuts a single corner off a chunk next to the origin
CornerRoomSize == Fx(17)

\* the fields of Fields the subdivider can tell apart, and those with the
\* corner-cutting room
SubFields ==
    { f \in Fields : f.faces_hit = 6 }
        \cup { [ f EXCEPT !.room_size = CornerRoomSize ] :
                   f \in { g \in Fields : g.faces_hit = 6 } }

\* the centres the children of lines 82-86 have at a given size: odd
\* multiples of half the size along each axis
FineCentres(size) == { c \in -MaxFine..MaxFine : c % size = size \div 2 }

\* cubes of the sizes max_air_cubes tells apart, next to the origin
SmallCubes ==
    UNION { [ pos : FineCentres(size) \X FineCentres(size) \X FineCentres(size),
              size : {size} ] : size \in { s \in Sizes : s <= Fx(1) } }

SubInit ==
    /\ field \in SubFields
    /\ pc = "sub"
    /\ sub_in \in [ pos : Centres \X Heights \X Centres, size : Sizes ] \cup SmallCubes
    /\ sub_out = NoResult
    /\ ExploreIdle
    /\ mesh = MeshIdle
    /\ config = ConfigIdle
    /\ rc = RayIdle
    /\ par = ParIdle
    /\ wave = WaveIdle
    /\ cull = CullIdle
    /\ sample = SampleIdle

Subdivide ==
    /\ pc = "sub"
    /\ sub_out = NoResult
    /\ sub_out' = subdivide_cube(field, sub_in.pos, sub_in.size)
    /\ UNCHANGED <<field, world, pc, queue, visited, chunks, total, cubes, triangles,
                   popped, pushes, rendered, blocked, sources, accessed, sub_in, mesh, config, rc,
                   par, wave, cull, sample>>

SubNext == Subdivide

SubSpec == SubInit /\ [][SubNext]_vars

(***************************************************************************)
(* MeshSpec: cubes_mesh on a list of 1..MaxCubes cubes, one face of        *)
(* generate_mesh_data's loops per step.  perform_raycasts returns, for     *)
(* each of the 6 face directions, a subset of the faces generate_cube_faces*)
(* made (one per cube); the subset's size is an input, its content is not  *)
(* read by the index arithmetic.                                           *)
(***************************************************************************)
FACE_NORMALS == 1..6

\* k copies of v
RECURSIVE Copies(_, _)
Copies(v, k) == IF k = 0 THEN << >> ELSE << v >> \o Copies(v, k - 1)

\* lines 166-168: the faces in the order the two nested loops reach them,
\* each named by its direction
RECURSIVE faces_in_order(_, _)
faces_in_order(kept, d) ==
    IF d > 6 THEN << >> ELSE Copies(d, kept[d]) \o faces_in_order(kept, d + 1)

\* the index is taken one too far
vertex_index_from_one(base_index, tri_index) == base_index + tri_index + 1

\* line 177
vertex_index(base_index, tri_index) == base_index + tri_index

\* lines 169-182: the 6 vertices of the 2 triangles of one face
push_face(m, d) ==
    LET base_index == Len(m.indices)
    IN  [ m EXCEPT
            !.faces = Tail(m.faces),
            !.indices = m.indices \o [ t \in 1..6 |-> vertex_index(base_index, t - 1) ],
            !.positions = m.positions \o [ t \in 1..6 |-> << d, t - 1 >> ] ]

MeshInit ==
    /\ field \in { f \in Fields : f.room_size = 0 /\ f.room_x = 0
                                  /\ f.corridor_width = 0 /\ f.faces_hit = 6 }
    /\ pc = "mesh"
    /\ \E n \in 1..MaxCubes :
         \E kept \in [ FACE_NORMALS -> 0..n ] :
             mesh = [ n_cubes |-> n, faces |-> faces_in_order(kept, 1),
                      indices |-> << >>, positions |-> << >>, n_triangles |-> 0 ]
    /\ sub_in = [ pos |-> <<0, 0, 0>>, size |-> Fx(CHUNK_SIZE) ]
    /\ sub_out = NoResult
    /\ ExploreIdle
    /\ config = ConfigIdle
    /\ rc = RayIdle
    /\ par = ParIdle
    /\ wave = WaveIdle
    /\ cull = CullIdle
    /\ sample = SampleIdle

\* generate_mesh_data, lines 168-183: the next face of the loops
PushFace ==
    /\ pc = "mesh"
    /\ mesh.faces # << >>
    /\ mesh' = push_face(mesh, Head(mesh.faces))
    /\ UNCHANGED <<field, world, pc, queue, visited, chunks, total, cubes, triangles,
                   popped, pushes, rendered, blocked, sources, accessed, sub_in, sub_out, config, rc,
                   par, wave, cull, sample>>

\* cubes_mesh, lines 55-65, once generate_mesh_data has returned
CountTriangles ==
    /\ pc = "mesh"
    /\ mesh.faces = << >>
    /\ pc' = "meshed"
    /\ mesh' = [ mesh EXCEPT !.n_triangles = Len(mesh.indices) \div 3 ]
    /\ UNCHANGED <<field, world, queue, visited, chunks, total, cubes, triangles,
                   popped, pushes, rendered, blocked, sources, accessed, sub_in, sub_out, config, rc,
                   par, wave, cull, sample>>

MeshNext == PushFace \/ CountTriangles

MeshSpec == MeshInit /\ [][MeshNext]_vars

(***************************************************************************)
(* Spec: chunk_search, one loop iteration per step                         *)
(***************************************************************************)
Origin == <<0, 0, 0>>

Init ==
    /\ field \in Fields
    /\ world = [ c \in Envelope |-> chunk_at(field, c) ]
    /\ pc = "loop"
    /\ queue = << Origin >>
    /\ visited = {}
    /\ chunks = << >>
    /\ total = 0
    /\ cubes = 0
    /\ triangles = 0
    /\ popped = << >>
    /\ pushes = 1
    /\ rendered = << >>
    /\ blocked = {}
    /\ sources = {}
    /\ accessed = {}
    /\ sub_in = [ pos |-> Origin, size |-> Fx(CHUNK_SIZE) ]
    /\ sub_out = NoResult
    /\ mesh = MeshIdle
    /\ config = ConfigIdle
    /\ rc = RayIdle
    /\ par = ParIdle
    /\ wave = WaveIdle
    /\ cull = CullIdle
    /\ sample = SampleIdle

\* lines 39-50: pop the front, explore it, extend chunks and queue, merge
Explore ==
    /\ pc = "loop"
    /\ queue # << >>
    /\ \E results \in { explore_chunk(visited, world, Head(queue)) } :
           /\ chunks' = chunks \o results.chunks
           /\ queue' = Tail(queue) \o results.new_queue
           /\ visited' = merge_visited(visited, results.new_visited)
           /\ popped' = Append(popped, Head(queue))
           /\ pushes' = pushes + Len(results.new_queue)
           /\ rendered' = rendered \o results.rendered
           /\ blocked' = blocked \cup results.blocking
           /\ sources' = IF results.rendered = << >> THEN sources
                         ELSE sources \cup { Head(queue) }
           /\ accessed' = accessed \cup results.accessed
    /\ UNCHANGED <<field, world, pc, total, cubes, triangles, sub_in, sub_out, mesh, config, rc,
                   par, wave, cull, sample>>

\* lines 52-78: the loop has ended; count and report
Report ==
    /\ pc = "loop"
    /\ queue = << >>
    /\ pc' = "done"
    /\ total' = Len(chunks)
    /\ cubes' = SumOf(chunks, "n_cubes", Len(chunks))
    /\ triangles' = SumOf(chunks, "n_triangles", Len(chunks))
    /\ UNCHANGED <<field, world, queue, visited, chunks, popped, pushes, rendered, blocked, sources,
                   accessed, sub_in, sub_out, mesh, config, rc,
                   par, wave, cull, sample>>

Next == Explore \/ Report

Spec == Init /\ [][Next]_vars

\* the loop is a running thread: an enabled step is eventually taken
FairSpec == Spec /\ WF_vars(Next)

(***************************************************************************)
(* ParSpec: one subdivide_cube call that splits, from the start of its     *)
(* (0..8).into_par_iter().flat_map(..).collect() to its return.  The 8     *)
(* closures run as rayon tasks: they finish in any order, one per step.    *)
(* collect() of a parallel iterator into a Vec keeps the items in the      *)
(* order of the iterator, whichever task finishes first.                   *)
(***************************************************************************)
\* a point of the chunk the corner-cutting room cuts, on its surface
CornerPoint == << -Fx(5) - 8, -Fx(2) - 4, -Fx(6) + 4 >>

\* the smallest cubes around CornerPoint
CornerCubes ==
    { [ pos |-> << CornerPoint[1] + k.pos[1], CornerPoint[2] + k.pos[2],
                   CornerPoint[3] + k.pos[3] >>,
        size |-> k.size ] : k \in { q \in SmallCubes : q.size = SMALLEST_CUBE_SIZE } }

\* the cubes subdivide_cube splits, some corner solid and more corners air
\* than max_air_cubes allows: those on the side x < 0 of the corridors, and
\* those on the surface of the corner-cutting room
ParCubes(f) ==
    { c \in IF f.room_size = CornerRoomSize THEN CornerCubes
            ELSE { k \in SmallCubes : k.pos[1] < 0 } :
        \E n_air \in { n_air_cubes(f, c.pos, c.size \div 2) } :
            ~fully_air(n_air) /\ n_air > max_air_cubes(c.size) }

\* the results are laid out in the order the tasks finish
place_by_completion(i, n_finished) == n_finished

\* lines 79-106: the place of child i's cubes among the collected results
place(i, n_finished) == i

ParInit ==
    /\ pc = "par"
    /\ field \in { f \in SubFields : f.room_size = 0 \/ f.room_size = CornerRoomSize }
    /\ \E c \in ParCubes(field) :
           par = [ at |-> "spawned", cube_pos |-> c.pos, cube_size |-> c.size,
                   done |-> {}, slots |-> [ k \in 0..7 |-> None ],
                   children |-> [ k \in 0..7 |-> None ],
                   out_of_order |-> FALSE, out |-> None ]
    /\ sub_in = [ pos |-> <<0, 0, 0>>, size |-> Fx(CHUNK_SIZE) ]
    /\ sub_out = NoResult
    /\ ExploreIdle
    /\ mesh = MeshIdle
    /\ config = ConfigIdle
    /\ rc = RayIdle
    /\ wave = WaveIdle
    /\ cull = CullIdle
    /\ sample = SampleIdle

\* lines 81-105: the closure of child i returns its local_cubes
ChildFinishes(i) ==
    /\ pc = "par"
    /\ par.at = "spawned"
    /\ i \notin par.done
    /\ \E child \in { subdivide_child(field, par.cube_pos, par.cube_size, i) } :
           par' = [ par EXCEPT
                      !.slots[place(i, Cardinality(par.done))] = child.cubes,
                      !.children[i] = child,
                      !.done = @ \cup {i},
                      !.out_of_order = @ \/ \E j \in par.done : j > i ]
    /\ UNCHANGED <<field, world, pc, queue, visited, chunks, total, cubes, triangles,
                   popped, pushes, rendered, blocked, sources, accessed, sub_in, sub_out,
                   mesh, config, rc, wave, cull, sample>>

\* lines 106-109: collect(), par_extend into the empty cubes, return
Collect ==
    /\ pc = "par"
    /\ par.at = "spawned"
    /\ par.done = 0..7
    /\ par' = [ par EXCEPT !.at = "collected",
                           !.out = par.slots[0] \o par.slots[1] \o par.slots[2]
                                   \o par.slots[3] \o par.slots[4] \o par.slots[5]
                                   \o par.slots[6] \o par.slots[7] ]
    /\ UNCHANGED <<field, world, pc, queue, visited, chunks, total, cubes, triangles,
                   popped, pushes, rendered, blocked, sources, accessed, sub_in, sub_out,
                   mesh, config, rc, wave, cull, sample>>

ParNext == (\E i \in 0..7 : ChildFinishes(i)) \/ Collect

ParSpec == ParInit /\ [][ParNext]_vars

(***************************************************************************)
(* WaveSpec: the wave-parallel driver of explore_chunk.  One wave is one   *)
(* pass over the current frontier: every coordinate of the frontier is     *)
(* explored as a task against the visited set as it was when the wave      *)
(* began, the tasks finish in any order, and their new_visited sets, new   *)
(* queues and chunks are merged after the last one, in frontier order.     *)
(* The origin is seeded as visited and queued before the first wave.       *)
(* Tasks read the snapshot only, so a schedule is told by which pending    *)
(* task finishes next; the first and the last pending one are offered.     *)
(***************************************************************************)
\* what the finished tasks of a wave returned, concatenated in frontier order
NoCollected == [ new_visited |-> {}, new_queue |-> << >>, rendered |-> << >> ]

collected_then(acc, results) ==
    [ new_visited |-> acc.new_visited \cup results.new_visited,
      new_queue   |-> acc.new_queue \o results.new_queue,
      rendered    |-> acc.rendered \o results.rendered ]

collected_before(results, acc) ==
    [ new_visited |-> results.new_visited \cup acc.new_visited,
      new_queue   |-> results.new_queue \o acc.new_queue,
      rendered    |-> results.rendered \o acc.rendered ]

start_wave(w, frontier) ==
    [ w EXCEPT !.frontier = frontier, !.lo = 1, !.hi = Len(frontier),
               !.front = NoCollected, !.back = NoCollected,
               !.out_of_order = FALSE,
               !.at = IF frontier = << >> THEN "done" ELSE "running" ]

WaveInit ==
    /\ pc = "wave"
    /\ field \in { f \in Fields : f.room_x = 0 /\ f.corridor_width = 0 }
    /\ world = [ c \in Envelope |-> chunk_at(field, c) ]
    /\ wave = [ at |-> "running", frontier |-> << Origin >>, lo |-> 1, hi |-> 1,
                front |-> NoCollected, back |-> NoCollected, out_of_order |-> FALSE,
                visited |-> { normalised(Origin) },
                rendered |-> << >>, pushed |-> << Origin >>, waves |-> 0 ]
    /\ queue = << >>
    /\ visited = {}
    /\ chunks = << >>
    /\ total = 0
    /\ cubes = 0
    /\ triangles = 0
    /\ popped = << >>
    /\ pushes = 0
    /\ rendered = << >>
    /\ blocked = {}
    /\ sources = {}
    /\ accessed = {}
    /\ sub_in = [ pos |-> Origin, size |-> Fx(CHUNK_SIZE) ]
    /\ sub_out = NoResult
    /\ mesh = MeshIdle
    /\ config = ConfigIdle
    /\ rc = RayIdle
    /\ par = ParIdle
    /\ cull = CullIdle
    /\ sample = SampleIdle

\* the task of the first pending coordinate of the frontier returns
FirstTaskFinishes ==
    /\ pc = "wave"
    /\ wave.at = "running"
    /\ wave.waves < MaxWaves
    /\ wave.lo <= wave.hi
    /\ \E results \in { explore_chunk(wave.visited, world, wave.frontier[wave.lo]) } :
           wave' = [ wave EXCEPT !.front = collected_then(@, results), !.lo = @ + 1 ]
    /\ UNCHANGED <<field, world, pc, queue, visited, chunks, total, cubes, triangles,
                   popped, pushes, rendered, blocked, sources, accessed, sub_in, sub_out,
                   mesh, config, rc, par, cull, sample>>

\* the task of the last pending coordinate returns before the ones ahead of it
LastTaskFinishes ==
    /\ pc = "wave"
    /\ wave.at = "running"
    /\ wave.waves < MaxWaves
    /\ wave.lo < wave.hi
    /\ \E results \in { explore_chunk(wave.visited, world, wave.frontier[wave.hi]) } :
           wave' = [ wave EXCEPT !.back = collected_before(results, @), !.hi = @ - 1,
                                 !.out_of_order = TRUE ]
    /\ UNCHANGED <<field, world, pc, queue, visited, chunks, total, cubes, triangles,
                   popped, pushes, rendered, blocked, sources, accessed, sub_in, sub_out,
                   mesh, config, rc, par, cull, sample>>

\* every task of the wave has returned: merge, and start the next wave
JoinWave ==
    /\ pc = "wave"
    /\ wave.at = "running"
    /\ wave.lo > wave.hi
    /\ \E all \in { collected_then(wave.front, wave.back) } :
           wave' = start_wave([ wave EXCEPT
                                  !.visited = merge_visited(@, all.new_visited),
                                  !.rendered = @ \o all.rendered,
                                  !.pushed = @ \o all.new_queue,
                                  !.waves = @ + 1 ],
                              all.new_queue)
    /\ UNCHANGED <<field, world, pc, queue, visited, chunks, total, cubes, triangles,
                   popped, pushes, rendered, blocked, sources, accessed, sub_in, sub_out,
                   mesh, config, rc, par, cull, sample>>

WaveNext == FirstTaskFinishes \/ LastTaskFinishes \/ JoinWave

WaveSpec == WaveInit /\ [][WaveNext]_vars

(***************************************************************************)
(* SampleSpec: the field generator applied to one Data2D sample at one     *)
(* point: get_data_3d, then get_data_color.  The sample is what            *)
(* get_data_2d returns for a column, with the floor material and the       *)
(* third floor variance drawn freely.                                      *)
(***************************************************************************)
SamplePoints == { -Fx(3), 0, Fx(1) }

Data2DSamples ==
    { [ d EXCEPT !.floor_material = m, !.floor_variance3 = v ] :
        d \in { get_data_2d(f, x, 0) : f \in { g \in Fields : g.room_x = 0 },
                                       x \in SamplePoints },
        m \in FloorMaterial,
        v \in { 200, 400, 500 } }

SampleInit ==
    /\ pc = "sample"
    /\ field \in { f \in Fields : f.room_x = 0 /\ f.room_size = 0 /\ f.corridor_width = 0 }
    /\ \E d \in Data2DSamples, x \in SamplePoints, y \in SamplePoints :
           sample = [ at |-> "drawn", data2d |-> d, x |-> x, z |-> 0, y |-> y,
                      is_empty |-> None, data_color |-> None ]
    /\ sub_in = [ pos |-> <<0, 0, 0>>, size |-> Fx(CHUNK_SIZE) ]
    /\ sub_out = NoResult
    /\ ExploreIdle
    /\ mesh = MeshIdle
    /\ config = ConfigIdle
    /\ rc = RayIdle
    /\ par = ParIdle
    /\ wave = WaveIdle
    /\ cull = CullIdle

Occupancy ==
    /\ pc = "sample"
    /\ sample.at = "drawn"
    /\ sample' = [ sample EXCEPT
                     !.at = "occupancy",
                     !.is_empty = get_data_3d(sample.data2d, sample.x, sample.z, sample.y) ]
    /\ UNCHANGED <<field, world, pc, queue, visited, chunks, total, cubes, triangles,
                   popped, pushes, rendered, blocked, sources, accessed, sub_in, sub_out,
                   mesh, config, rc, par, wave, cull>>

Colour ==
    /\ pc = "sample"
    /\ sample.at = "occupancy"
    /\ sample' = [ sample EXCEPT
                     !.at = "colour",
                     !.data_color = get_data_color(sample.data2d, sample.x, sample.z,
                                                   sample.y) ]
    /\ UNCHANGED <<field, world, pc, queue, visited, chunks, total, cubes, triangles,
                   popped, pushes, rendered, blocked, sources, accessed, sub_in, sub_out,
                   mesh, config, rc, par, wave, cull>>

SampleNext == Occupancy \/ Colour

SampleSpec == SampleInit /\ [][SampleNext]_vars

(***************************************************************************)
(* RaySpec: one raycast_mesh call, one triangle of its loops per step.     *)
(* Points are in sixteenths of a world unit, so every determinant is an    *)
(* integer.  The ray direction is kept as the integer vector the code      *)
(* normalises: normalising divides the determinant by the vector's length  *)
(* and multiplies t by it, for every triangle of the call alike, so        *)
(* neither which tests return None nor the order of the t values changes.  *)
(***************************************************************************)
Sub3(a, b) == << a[1] - b[1], a[2] - b[2], a[3] - b[3] >>
Dot(a, b) == a[1] * b[1] + a[2] * b[2] + a[3] * b[3]
Cross(a, b) ==
    << a[2] * b[3] - a[3] * b[2], a[3] * b[1] - a[1] * b[3], a[1] * b[2] - a[2] * b[1] >>

\* render.rs lines 6-13, corner numbers from 0
FACES ==
    << <<2, 1, 0, 3, 1, 2>>,
       <<4, 5, 6, 6, 5, 7>>,
       <<2, 0, 4, 4, 6, 2>>,
       <<1, 3, 5, 3, 7, 5>>,
       <<0, 1, 5, 5, 4, 0>>,
       <<3, 2, 6, 6, 7, 3>> >>

\* render.rs lines 105-114: the corners of a cube at real position p
corners(p, half_size) ==
    << << p[1] + half_size, p[2] + half_size, p[3] + half_size >>,
       << p[1] + half_size, p[2] - half_size, p[3] + half_size >>,
       << p[1] - half_size, p[2] + half_size, p[3] + half_size >>,
       << p[1] - half_size, p[2] - half_size, p[3] + half_size >>,
       << p[1] + half_size, p[2] + half_size, p[3] - half_size >>,
       << p[1] + half_size, p[2] - half_size, p[3] - half_size >>,
       << p[1] - half_size, p[2] + half_size, p[3] - half_size >>,
       << p[1] - half_size, p[2] - half_size, p[3] - half_size >> >>

\* render.rs lines 136-147: the two triangles of face face_index (from 1)
tris(p, half_size, face_index) ==
    LET c == corners(p, half_size)
        current_face == FACES[face_index]
    IN  << << c[current_face[1] + 1], c[current_face[2] + 1], c[current_face[3] + 1] >>,
           << c[current_face[4] + 1], c[current_face[5] + 1], c[current_face[6] + 1] >> >>

\* raycast.rs lines 44-60: the FaceRaycast list of a group of face
\* directions, each direction with the faces of all cubes in cube order
total_faces(cube_face_indices, cube_list) ==
    [ k \in 1..(Len(cube_face_indices) * Len(cube_list)) |->
        LET face_index == cube_face_indices[(k - 1) \div Len(cube_list) + 1]
            index == ((k - 1) % Len(cube_list)) + 1
        IN  [ index      |-> index,
              face_index |-> face_index,
              tris       |-> tris(cube_list[index], SMALLEST_CUBE_SIZE \div 2, face_index) ] ]

\* raycast.rs lines 141-145
determinant_of(ray, triangle) ==
    LET edge1 == Sub3(triangle[2], triangle[1])
        edge2 == Sub3(triangle[3], triangle[1])
    IN  Dot(edge1, Cross(ray.direction, edge2))

\* line 148, determinant.abs() < 0.00001: a determinant of integer vectors
\* is 0 or at least 1 in absolute value
near_zero(determinant) == abs(determinant) < 1

RECURSIVE GCD(_, _)
GCD(a, b) == IF b = 0 THEN a ELSE GCD(b, a % b)

\* raycast.rs lines 140-176.  Some(t) is the fraction num / den with
\* den > 0, in lowest terms; the comparisons with 0.0 and 1.0 are multiplied
\* through by the determinant's absolute value, and t > 0.00001 is num > 0
\* (a positive t is at least 1 / den here).
ray_triangle_intersect(ray, triangle) ==
    LET edge1 == Sub3(triangle[2], triangle[1])
        edge2 == Sub3(triangle[3], triangle[1])
        direction_cross_edge2 == Cross(ray.direction, edge2)
        determinant == Dot(edge1, direction_cross_edge2)
        sign == IF determinant < 0 THEN -1 ELSE 1
        diff_origin_vertex == Sub3(ray.origin, triangle[1])
        u == sign * Dot(diff_origin_vertex, direction_cross_edge2)
        diff_origin_vertex_cross_edge1 == Cross(diff_origin_vertex, edge1)
        v == sign * Dot(ray.direction, diff_origin_vertex_cross_edge1)
        t == sign * Dot(edge2, diff_origin_vertex_cross_edge1)
    IN  IF near_zero(determinant) THEN None
        ELSE IF ~(0 <= u /\ u <= abs(determinant)) THEN None
        ELSE IF v < 0 \/ u + v > abs(determinant) THEN None
        ELSE IF t > 0 THEN [ num |-> t \div GCD(t, abs(determinant)),
                             den |-> abs(determinant) \div GCD(t, abs(determinant)) ]
        ELSE None

\* the comparison is turned round: the farthest hit is kept
on_some_farthest(r, face, t) ==
    IF r.closest_t = None \/ t.num * r.closest_t.den > r.closest_t.num * t.den
    THEN [ r EXCEPT !.closest_t = t, !.hit_face = face ]
    ELSE r

\* raycast_mesh lines 122-131: Some(t) replaces closest_t and the face
\* becomes hit_face when there is no closest_t yet or t is below it
on_some(r, face, t) ==
    IF r.closest_t = None \/ t.num * r.closest_t.den < r.closest_t.num * t.den
    THEN [ r EXCEPT !.closest_t = t, !.hit_face = face ]
    ELSE r

\* the loops are left at the first None
on_none_break(r) == [ r EXCEPT !.cursor = 2 * Len(r.faces) ]

\* raycast_mesh line 121: None fails the if let, nothing is assigned
on_none(r) == r

\* the triangles of the call are numbered 1..2 * Len(faces) in loop order
triangle_at(r, cursor) == r.faces[(cursor - 1) \div 2 + 1].tris[((cursor - 1) % 2) + 1]

\* the vectors normalize() is given: the 26 sign patterns of get_raycast_data
RayDirections == { d \in {-1, 0, 1} \X {-1, 0, 1} \X {-1, 0, 1} : d # <<0, 0, 0>> }

\* the points rays are aimed at: inside the first cube, off its centre
RayTargets == { <<1, 1, 1>>, <<-1, 1, 1>> }

\* get_raycast_data, lines 188-260: the face directions of the 26 groups
RayGroups ==
    { <<1>>, <<2>>, <<3>>, <<4>>, <<5>>, <<6>>,
      <<5, 1>>, <<5, 2>>, <<6, 1>>, <<6, 2>>, <<3, 1>>, <<3, 2>>,
      <<3, 5>>, <<3, 6>>, <<4, 1>>, <<4, 2>>, <<4, 5>>, <<4, 6>>,
      <<5, 3, 1>>, <<6, 4, 2>>, <<6, 3, 1>>, <<5, 4, 1>>,
      <<5, 3, 2>>, <<6, 4, 1>>, <<6, 3, 2>>, <<5, 4, 2>> }

\* 1..MaxRayCubes smallest cubes in a row along x, in order
RayCubeLists ==
    { [ i \in 1..Len(ks) |-> << SMALLEST_CUBE_SIZE * ks[i], 0, 0 >> ] :
        ks \in { s \in UNION { [ 1..n -> 0..MaxRayCubes ] : n \in 1..MaxRayCubes } :
                   \A i, j \in 1..Len(s) : i < j => s[i] < s[j] } }

RayInit ==
    /\ pc = "ray"
    /\ \E d \in RayDirections, target \in RayTargets,
          group \in RayGroups, cube_list \in RayCubeLists :
           rc = [ origin    |-> << target[1] - 2 * SMALLEST_CUBE_SIZE * d[1],
                                   target[2] - 2 * SMALLEST_CUBE_SIZE * d[2],
                                   target[3] - 2 * SMALLEST_CUBE_SIZE * d[3] >>,
                  direction |-> d,
                  faces     |-> total_faces(group, cube_list),
                  cursor    |-> 1,
                  closest_t |-> None,
                  hit_face  |-> None,
                  tested    |-> 0,
                  skipped   |-> 0 ]
    /\ field \in { f \in Fields : f.room_size = 0 /\ f.room_x = 0
                                  /\ f.corridor_width = 0 /\ f.faces_hit = 6 }
    /\ sub_in = [ pos |-> <<0, 0, 0>>, size |-> Fx(CHUNK_SIZE) ]
    /\ sub_out = NoResult
    /\ ExploreIdle
    /\ mesh = MeshIdle
    /\ config = ConfigIdle
    /\ par = ParIdle
    /\ wave = WaveIdle
    /\ cull = CullIdle
    /\ sample = SampleIdle

\* raycast_mesh, lines 119-134: the next triangle of the loops
TestTriangle ==
    /\ pc = "ray"
    /\ rc.cursor <= 2 * Len(rc.faces)
    /\ LET face == rc.faces[(rc.cursor - 1) \div 2 + 1]
           triangle == triangle_at(rc, rc.cursor)
           t == ray_triangle_intersect(rc, triangle)
           after == IF t = None THEN on_none(rc) ELSE on_some(rc, face, t)
       IN  rc' = [ after EXCEPT !.cursor = @ + 1,
                                !.tested = @ + 1,
                                !.skipped = IF near_zero(determinant_of(rc, triangle))
                                            THEN @ + 1 ELSE @ ]
    /\ UNCHANGED <<field, world, pc, queue, visited, chunks, total, cubes, triangles,
                   popped, pushes, rendered, blocked, sources, accessed, sub_in, sub_out,
                   mesh, config,
                   par, wave, cull, sample>>

\* raycast_mesh, line 137: the loops have ended, hit_face is returned
ReturnHitFace ==
    /\ pc = "ray"
    /\ rc.cursor > 2 * Len(rc.faces)
    /\ pc' = "returned"
    /\ UNCHANGED <<field, world, queue, visited, chunks, total, cubes, triangles,
                   popped, pushes, rendered, blocked, sources, accessed, sub_in, sub_out,
                   mesh, config, rc,
                   par, wave, cull, sample>>

RayNext == TestTriangle \/ ReturnHitFace

RaySpec == RayInit /\ [][RayNext]_vars

(***************************************************************************)
(* ConfigSpec: chunk_search built with other values of the three           *)
(* constants, from its first line to the end of the first explore_chunk    *)
(* call (the one for the origin), one direction per step.  The constants   *)
(* are usize and f32 items of the source: any value of those types builds. *)
(***************************************************************************)
Configs ==
    [ render_distance    : 0..MaxConfigDistance,
      chunk_size         : 1..MaxConfigChunk,
      smallest_cube_size : { SMALLEST_CUBE_SIZE * Pow2(e) : e \in 0..MaxConfigExp } ]

\* lines 115-119 with RENDER_DISTANCE = render_distance
normalised_at(render_distance, c) ==
    << c[1] + render_distance, c[2] + render_distance, c[3] + render_distance >>

\* lines 121-126 with RENDER_DISTANCE = render_distance
is_out_of_bounds_at(render_distance, n) ==
    \E a \in 1..3 : n[a] < 0 \/ n[a] > render_distance * 2

\* lines 137-139 with RENDER_DISTANCE = render_distance
beyond_render_distance_at(render_distance, c) ==
    c[1] * c[1] + c[2] * c[2] + c[3] * c[3] > render_distance * render_distance

ConfigInit ==
    /\ pc = "config"
    /\ config \in { [ ConfigIdle EXCEPT !.cfg = c, !.at = "start" ] : c \in Configs }
    /\ field \in { f \in Fields : f.room_size = 0 /\ f.room_x = 0
                                  /\ f.corridor_width = 0 /\ f.faces_hit = 6 }
    /\ sub_in = [ pos |-> <<0, 0, 0>>, size |-> Fx(CHUNK_SIZE) ]
    /\ sub_out = NoResult
    /\ ExploreIdle
    /\ mesh = MeshIdle
    /\ rc = RayIdle
    /\ par = ParIdle
    /\ wave = WaveIdle
    /\ cull = CullIdle
    /\ sample = SampleIdle

\* chunk_search, lines 24-36: timer, generator, queue, visited, the push of
\* the origin.  No line reads the constants to compare them.
Startup ==
    /\ pc = "config"
    /\ config.at = "start"
    /\ config' = [ config EXCEPT !.at = "loop",
                                 !.visited_len = config.cfg.render_distance * 2 + 1,
                                 !.queue = << <<0, 0, 0>> >> ]
    /\ UNCHANGED <<field, world, pc, queue, visited, chunks, total, cubes, triangles,
                   popped, pushes, rendered, blocked, sources, accessed, sub_in, sub_out,
                   mesh, rc,
                   par, wave, cull, sample>>

\* explore_chunk for the origin, lines 109-166: the next direction.  visited
\* is all false and the 6 neighbours differ, so neither array holds true
\* for the neighbour; it is rendered unless lines 121-141 skip it.
ExploreOrigin ==
    /\ pc = "config"
    /\ config.at = "loop"
    /\ LET d == config.direction + 1
           neighbor == directions[d]
           skipped ==
               \/ is_out_of_bounds_at(config.cfg.render_distance,
                      normalised_at(config.cfg.render_distance, neighbor))
               \/ beyond_render_distance_at(config.cfg.render_distance, neighbor)
       IN  config' = [ config EXCEPT !.direction = d,
                                     !.renders = IF skipped THEN @ ELSE @ + 1,
                                     !.at = IF d = Len(directions) THEN "explored" ELSE @ ]
    /\ UNCHANGED <<field, world, pc, queue, visited, chunks, total, cubes, triangles,
                   popped, pushes, rendered, blocked, sources, accessed, sub_in, sub_out,
                   mesh, rc,
                   par, wave, cull, sample>>

ConfigNext == Startup \/ ExploreOrigin

ConfigSpec == ConfigInit /\ [][ConfigNext]_vars

(***************************************************************************)
(* CullSpec: one perform_raycasts call on the faces generate_cube_faces    *)
(* built for a list of cubes.  Points are in hundredths of a cube's half   *)
(* size, so the 1 % inset of the probe vertices is one unit.  Each         *)
(* (table entry, face) pair of lines 38-76 is one rayon task; a step is    *)
(* one task returning its local_hit_faces.  Tasks only read cube_faces, so *)
(* a schedule is told by which pending task returns next; the first and    *)
(* the last pending one are offered.                                       *)
(***************************************************************************)
\* cube.size / 2.0, render.rs line 90
CullHalf == 100

\* render.rs lines 14-21, corner numbers from 0
FACES_VERTICES ==
    << <<0, 1, 2, 3>>, <<4, 5, 6, 7>>, <<0, 2, 4, 6>>,
       <<1, 3, 5, 7>>, <<0, 1, 4, 5>>, <<2, 3, 6, 7>> >>

\* render.rs lines 124-134: a corner moved 1 % of the way to the face centre
shifted_corner(corner, center) ==
    << corner[1] + (center[1] - corner[1]) \div 100,
       corner[2] + (center[2] - corner[2]) \div 100,
       corner[3] + (center[3] - corner[3]) \div 100 >>

\* render.rs lines 122-150: the Face of direction face_index (from 1) of the
\* cube at real position p
face_of(p, half_size, face_index) ==
    LET c == corners(p, half_size)
        verts == FACES_VERTICES[face_index]
        center == << (c[verts[1] + 1][1] + c[verts[2] + 1][1] + c[verts[3] + 1][1]
                          + c[verts[4] + 1][1]) \div 4,
                     (c[verts[1] + 1][2] + c[verts[2] + 1][2] + c[verts[3] + 1][2]
                          + c[verts[4] + 1][2]) \div 4,
                     (c[verts[1] + 1][3] + c[verts[2] + 1][3] + c[verts[3] + 1][3]
                          + c[verts[4] + 1][3]) \div 4 >>
    IN  [ vertices |-> [ k \in 1..4 |-> shifted_corner(c[verts[k] + 1], center) ],
          tris     |-> tris(p, half_size, face_index) ]

\* the least and the greatest of coordinate axis over the corners of the cubes
RECURSIVE least(_, _, _)
least(cube_list, axis, n) ==
    IF n = 0 THEN cube_list[1][axis]
    ELSE min(cube_list[n][axis] - CullHalf, least(cube_list, axis, n - 1))

RECURSIVE greatest(_, _, _)
greatest(cube_list, axis, n) ==
    IF n = 0 THEN cube_list[1][axis]
    ELSE max(cube_list[n][axis] + CullHalf, greatest(cube_list, axis, n - 1))

\* render.rs lines 69-155: six CubeFaces with one Face per cube, in cube
\* order, and the bounding box
generate_cube_faces(cube_list) ==
    [ cube_faces |-> [ d \in 1..6 |->
                         [ k \in 1..Len(cube_list) |-> face_of(cube_list[k], CullHalf, d) ] ],
      min_pos    |-> << least(cube_list, 1, Len(cube_list)), least(cube_list, 2, Len(cube_list)),
                        least(cube_list, 3, Len(cube_list)) >>,
      max_pos    |-> << greatest(cube_list, 1, Len(cube_list)), greatest(cube_list, 2, Len(cube_list)),
                        greatest(cube_list, 3, Len(cube_list)) >> ]

\* FaceIndex, raycast.rs lines 7-14, from 1
Front == 1
Back == 2
Top == 3
Bottom == 4
Left == 5
Right == 6

\* raycast.rs lines 178-278
get_raycast_data(min_pos, max_pos) ==
    LET max_size == max(max(max_pos[1] - min_pos[1], max_pos[2] - min_pos[2]),
                        max_pos[3] - min_pos[3])
        off_x == (max_pos[1] + min_pos[1]) \div 2 + (max_size * 3) \div 2
        off_y == (max_pos[2] + min_pos[2]) \div 2 + (max_size * 3) \div 2
        off_z == (max_pos[3] + min_pos[3]) \div 2 + (max_size * 3) \div 2
    IN  << [ faces |-> << Front >>,  origin |-> << 0, 0, off_z >> ],
           [ faces |-> << Back >>,   origin |-> << 0, 0, -off_z >> ],
           [ faces |-> << Top >>,    origin |-> << 0, off_y, 0 >> ],
           [ faces |-> << Bottom >>, origin |-> << 0, -off_y, 0 >> ],
           [ faces |-> << Left >>,   origin |-> << off_x, 0, 0 >> ],
           [ faces |-> << Right >>,  origin |-> << -off_x, 0, 0 >> ],
           [ faces |-> << Left, Front >>,   origin |-> << off_x, 0, off_z >> ],
           [ faces |-> << Left, Back >>,    origin |-> << off_x, 0, -off_z >> ],
           [ faces |-> << Right, Front >>,  origin |-> << -off_x, 0, off_z >> ],
           [ faces |-> << Right, Back >>,   origin |-> << -off_x, 0, -off_z >> ],
           [ faces |-> << Top, Front >>,    origin |-> << 0, off_y, off_z >> ],
           [ faces |-> << Top, Back >>,     origin |-> << 0, off_y, -off_z >> ],
           [ faces |-> << Top, Left >>,     origin |-> << -off_x, off_y, 0 >> ],
           [ faces |-> << Top, Right >>,    origin |-> << -off_x, off_y, 0 >> ],
           [ faces |-> << Bottom, Front >>, origin |-> << 0, -off_y, off_z >> ],
           [ faces |-> << Bottom, Back >>,  origin |-> << 0, -off_y, -off_z >> ],
           [ faces |-> << Bottom, Left >>,  origin |-> << -off_x, -off_y, 0 >> ],
           [ faces |-> << Bottom, Right >>, origin |-> << -off_x, -off_y, 0 >> ],
           [ faces |-> << Left, Top, Front >>,     origin |-> << off_x, off_y, off_z >> ],
           [ faces |-> << Right, Bottom, Back >>,  origin |-> << -off_x, -off_y, -off_z >> ],
           [ faces |-> << Right, Top, Front >>,    origin |-> << -off_x, off_y, off_z >> ],
           [ faces |-> << Left, Bottom, Front >>,  origin |-> << off_x, -off_y, off_z >> ],
           [ faces |-> << Left, Top, Back >>,      origin |-> << off_x, off_y, -off_z >> ],
           [ faces |-> << Right, Bottom, Front >>, origin |-> << -off_x, -off_y, off_z >> ],
           [ faces |-> << Left, Bottom, Back >>,   origin |-> << off_x, -off_y, -off_z >> ],
           [ faces |-> << Right, Top, Back >>,     origin |-> << -off_x, off_y, -off_z >> ] >>

\* every direction group is cast against, whatever the entry lists
cast_directions_all(cube_face_indices) == << Front, Back, Top, Bottom, Left, Right >>

\* raycast.rs lines 44-46: the directions whose faces an entry casts against
cast_directions(cube_face_indices) == cube_face_indices

\* raycast.rs lines 44-60: the FaceRaycast list of an entry, each listed
\* direction with the faces of all cubes in cube order
cast_against(cube_face_indices, cube_faces) ==
    LET listed == cast_directions(cube_face_indices)
        n == Len(cube_faces[1])
    IN  [ k \in 1..(Len(listed) * n) |->
            LET face_index == listed[(k - 1) \div n + 1]
                index == ((k - 1) % n) + 1
            IN  [ index      |-> index,
                  face_index |-> face_index,
                  vertices   |-> cube_faces[face_index][index].vertices,
                  tris       |-> cube_faces[face_index][index].tris ] ]

\* raycast_mesh, lines 115-138: the loops from triangle r.cursor on
RECURSIVE raycast_loop(_, _)
raycast_loop(ray, r) ==
    IF r.cursor > 2 * Len(r.faces) THEN r.hit_face
    ELSE LET face == r.faces[(r.cursor - 1) \div 2 + 1]
             after == The({ IF t = None THEN on_none(r) ELSE on_some(r, face, t) :
                            t \in { ray_triangle_intersect(ray, triangle_at(r, r.cursor)) } })
         IN  raycast_loop(ray, [ after EXCEPT !.cursor = r.cursor + 1 ])

raycast_mesh(ray, faces) ==
    raycast_loop(ray, [ faces |-> faces, cursor |-> 1, closest_t |-> None,
                        hit_face |-> None ])

\* raycast.rs lines 67-69.  The direction is vertex - origin, which is minus
\* the entry's offset, a multiple of CullHalf; it is kept divided by CullHalf
\* in place of its length.
probe_ray(origin, vertex) ==
    LET ray_origin == << origin[1] + vertex[1], origin[2] + vertex[2], origin[3] + vertex[3] >>
        d == Sub3(vertex, ray_origin)
    IN  [ origin    |-> ray_origin,
          direction |-> << d[1] \div CullHalf, d[2] \div CullHalf, d[3] \div CullHalf >> ]

\* raycast.rs lines 64-75: the hits of the 4 rays of one face, as the set of
\* <<face_index, index>> inserted into local_hit_faces
local_hit_faces(origin, face, faces) ==
    { << hit.face_index, hit.index >> :
        hit \in { raycast_mesh(probe_ray(origin, face.vertices[v]), faces) : v \in 1..4 }
                  \ { None } }

\* the sets are replaced by the latest result
extend_replacing(hit_faces, local) ==
    [ i \in 1..6 |-> { h[2] : h \in { g \in local : g[1] = i } } ]

\* raycast.rs lines 78-82 and 89-93: HashSet::extend, per direction
extend(hit_faces, local) ==
    [ i \in 1..6 |-> hit_faces[i] \cup { h[2] : h \in { g \in local : g[1] = i } } ]

\* the tasks of a call in iterator order: <<entry, place in total_faces>>
RECURSIVE tasks_from(_, _, _)
tasks_from(raycast_data, e, n_cubes) ==
    IF e > Len(raycast_data) THEN << >>
    ELSE [ k \in 1..(Len(cast_directions(raycast_data[e].faces)) * n_cubes) |-> << e, k >> ]
             \o tasks_from(raycast_data, e + 1, n_cubes)

\* the orders a HashSet of indices can be iterated in
Orders(S) ==
    { o \in [ 1..Cardinality(S) -> S ] : \A i, j \in 1..Cardinality(S) : o[i] = o[j] => i = j }

\* where the cubes of a call can be, real (chunk-relative) centres: two
\* side by side along x, one on the far negative side of the chunk, one
\* above the first
CullSites ==
    << << 0, 0, 0 >>, << 2 * CullHalf, 0, 0 >>, << -8 * CullHalf, 0, 0 >>,
       << 0, 2 * CullHalf, 0 >> >>

CullCubeLists ==
    { [ i \in 1..Len(ks) |-> CullSites[ks[i]] ] :
        ks \in { q \in UNION { [ 1..n -> 1..(MaxCullCubes + 1) ] : n \in 1..MaxCullCubes } :
                   \A i, j \in 1..Len(q) : i < j => q[i] < q[j] } }

\* raycast.rs lines 62-75: the task <<entry, place>> casts the 4 rays of its
\* face against the faces of its entry.  What it returns is a function of
\* cube_faces and the table alone, so a run reads it from cull.returns,
\* which CullInit tabulates for the cubes drawn.
cast_task(raycast_data, cube_faces, task) ==
    LET entry == raycast_data[task[1]]
        faces == cast_against(entry.faces, cube_faces)
        face == faces[task[2]]
    IN  [ entry      |-> task[1],
          face_index |-> face.face_index,
          index      |-> face.index,
          against    |-> { faces[k].face_index : k \in 1..Len(faces) },
          hits       |-> local_hit_faces(entry.origin, face, faces) ]

CullInit ==
    /\ pc = "cull"
    /\ \E cubes_in \in CullCubeLists :
         \E built \in { generate_cube_faces(cubes_in) } :
           \E raycast_data \in { get_raycast_data(built.min_pos, built.max_pos) } :
             cull = [ at |-> "casting", cubes |-> cubes_in,
                      cube_faces |-> built.cube_faces,
                      min_pos |-> built.min_pos, max_pos |-> built.max_pos,
                      raycast_data |-> raycast_data,
                      tasks |-> tasks_from(raycast_data, 1, Len(cubes_in)),
                      returns |-> [ n \in 1..Len(tasks_from(raycast_data, 1, Len(cubes_in))) |->
                                      cast_task(raycast_data, built.cube_faces,
                                                tasks_from(raycast_data, 1, Len(cubes_in))[n]) ],
                      lo |-> 1,
                      hi |-> Len(tasks_from(raycast_data, 1, Len(cubes_in))),
                      hit_faces |-> [ i \in 1..6 |-> {} ],
                      last |-> None,
                      out_of_order |-> FALSE,
                      new_cube_faces |-> None,
                      n_triangles |-> 0 ]
    /\ field \in { f \in Fields : f.room_size = 0 /\ f.room_x = 0
                                  /\ f.corridor_width = 0 /\ f.faces_hit = 6 }
    /\ sub_in = [ pos |-> <<0, 0, 0>>, size |-> Fx(CHUNK_SIZE) ]
    /\ sub_out = NoResult
    /\ ExploreIdle
    /\ mesh = MeshIdle
    /\ config = ConfigIdle
    /\ rc = RayIdle
    /\ par = ParIdle
    /\ wave = WaveIdle
    /\ sample = SampleIdle

\* raycast.rs lines 78-82: the local_hit_faces of task number n are merged
cast(c, n) ==
    [ c EXCEPT !.hit_faces = extend(@, c.returns[n].hits), !.last = c.returns[n] ]

FirstCastReturns ==
    /\ pc = "cull"
    /\ cull.at = "casting"
    /\ cull.lo <= cull.hi
    /\ cull' = [ cast(cull, cull.lo) EXCEPT !.lo = @ + 1 ]
    /\ UNCHANGED <<field, world, pc, queue, visited, chunks, total, cubes, triangles,
                   popped, pushes, rendered, blocked, sources, accessed, sub_in, sub_out,
                   mesh, config, rc, par, wave, sample>>

LastCastReturns ==
    /\ pc = "cull"
    /\ cull.at = "casting"
    /\ cull.lo < cull.hi
    /\ cull' = [ cast(cull, cull.hi) EXCEPT !.hi = @ - 1, !.out_of_order = TRUE ]
    /\ UNCHANGED <<field, world, pc, queue, visited, chunks, total, cubes, triangles,
                   popped, pushes, rendered, blocked, sources, accessed, sub_in, sub_out,
                   mesh, config, rc, par, wave, sample>>

\* raycast.rs lines 95-111, then generate_mesh_data (render.rs 160-192): the
\* faces of each direction are cloned in the iteration order of its HashSet,
\* and every triangle of a cloned face adds 3 indices
Rebuild ==
    /\ pc = "cull"
    /\ cull.at = "casting"
    /\ cull.lo > cull.hi
    /\ \E o1 \in Orders(cull.hit_faces[1]), o2 \in Orders(cull.hit_faces[2]),
          o3 \in Orders(cull.hit_faces[3]), o4 \in Orders(cull.hit_faces[4]),
          o5 \in Orders(cull.hit_faces[5]), o6 \in Orders(cull.hit_faces[6]) :
         \E new_faces \in { << o1, o2, o3, o4, o5, o6 >> } :
           cull' = [ cull EXCEPT
                       !.at = "culled",
                       !.new_cube_faces = new_faces,
                       !.n_triangles =
                           SumOf([ i \in 1..6 |->
                                     [ n |-> SumOf([ k \in 1..Len(new_faces[i]) |->
                                                       [ n |-> 3 * Len(cull.cube_faces[i][new_faces[i][k]].tris) ] ],
                                                   "n", Len(new_faces[i])) ] ],
                                 "n", 6) \div 3 ]
    /\ UNCHANGED <<field, world, pc, queue, visited, chunks, total, cubes, triangles,
                   popped, pushes, rendered, blocked, sources, accessed, sub_in, sub_out,
                   mesh, config, rc, par, wave, sample>>

CullNext == FirstCastReturns \/ LastCastReturns \/ Rebuild

CullSpec == CullInit /\ [][CullNext]_vars

(***************************************************************************)
(* Definitions the claims are stated with                                  *)
(***************************************************************************)
\* sample3D never returns empty: no point is inside a room or a corridor
SolidEverywhere(f) == f.room_size = 0 /\ f.corridor_width = 0

\* sample3D returns empty at every point a run can sample: the room radius
\* exceeds the distance from the room centre to the farthest chunk corner
Reach == Fx(RENDER_DISTANCE * CHUNK_SIZE) + Fx(CHUNK_SIZE) \div 2
AirEverywhere(f) ==
    f.room_size * f.room_size >
        (Reach + f.room_x) * (Reach + f.room_x) + Reach * Reach
        + (Reach * max(f.room_floor, f.room_ceiling))
            * (Reach * max(f.room_floor, f.room_ceiling))

NoRepeats(seq) == \A i, j \in 1..Len(seq) : seq[i] = seq[j] => i = j

Range(seq) == { seq[i] : i \in 1..Len(seq) }

\* the size a Cube was rendered with, before the 1.175 oversize factor
NominalSize(cube) == cube.size \div 1175

PowerOfTwoFraction(s, whole) == \E k \in 0..Log2(whole) : s * Pow2(k) = whole

SubDone == pc = "sub" /\ sub_out # NoResult

(***************************************************************************)
(* C1: at every point of a run, and so after chunk_search has completed,   *)
(* no two entries of the output chunk list have the same chunk position,   *)
(* and chunk_render has run at most once for each coordinate.              *)
(***************************************************************************)
C1_ChunkListHasNoDuplicates ==
    /\ \A i, j \in 1..Len(chunks) :
           chunks[i].chunk_pos = chunks[j].chunk_pos => i = j
    /\ NoRepeats(rendered)

C1_Witness ==
    /\ pc = "done"
    /\ Len(chunks) > 6
    /\ Cardinality(sources) > 1
    /\ \E i \in 1..Len(chunks) : chunks[i].n_cubes > 1

(***************************************************************************)
(* C2: every coordinate, the origin included, is popped from the frontier  *)
(* and expanded at most once in a run.                                     *)
(***************************************************************************)
C2_ExpandedAtMostOnce == NoRepeats(popped)

(***************************************************************************)
(* C3: before the first pop the origin is in the VisitedSet and in the     *)
(* frontier, and every coordinate in the frontier is in the VisitedSet.    *)
(***************************************************************************)
C3_OriginSeededVisited ==
    /\ popped = << >> /\ pc = "loop" =>
           normalised(Origin) \in visited /\ Origin \in Range(queue)
    /\ \A c \in Range(queue) : normalised(c) \in visited

(***************************************************************************)
(* C4: a coordinate whose chunk is classified as blocking is never the     *)
(* coordinate from which a neighbour is generated or pushed.               *)
(***************************************************************************)
C4_BlockingNeverExpanded == blocked \cap (sources \cup Range(popped)) = {}

(***************************************************************************)
(* C5: on a field that is solid everywhere the run generates the origin    *)
(* chunk, classifies it as blocking and reports a total of 1 chunk.        *)
(***************************************************************************)
C5_SolidFieldTotalIsOne ==
    pc = "done" /\ SolidEverywhere(field) =>
        /\ Origin \in Range(rendered)
        /\ Origin \in blocked
        /\ total = 1

(***************************************************************************)
(* C6: on a field that is air everywhere every chunk rendered has zero     *)
(* cells, and when the run has ended every coordinate of the envelope, the *)
(* origin included, is marked visited and the triangle total is 0.         *)
(***************************************************************************)
C6_AirFieldVisitsEnvelope ==
    AirEverywhere(field) =>
        /\ chunks = << >>
        /\ blocked = {}
        /\ pc = "done" =>
               /\ visited = { normalised(c) : c \in Envelope }
               /\ Range(rendered) = Envelope
               /\ triangles = 0
               /\ cubes = 0

C6_Witness ==
    /\ pc = "done"
    /\ AirEverywhere(field)
    /\ normalised(Origin) \in visited
    /\ normalised(<<RENDER_DISTANCE, 0, 0>>) \in visited

(***************************************************************************)
(* C7: the exploration loop terminates for every field: the number of      *)
(* coordinates ever pushed is at most the number of lattice points of the  *)
(* envelope plus the initial push of the origin, and the frontier          *)
(* eventually is empty with the loop left.                                 *)
(***************************************************************************)
C7_ExplorationTerminates ==
    /\ [](pushes <= Cardinality(Envelope) + 1)
    /\ <>(pc = "done" /\ queue = << >>)

C7_Witness == pc = "done" /\ queue = << >> /\ pushes = Cardinality(Envelope) + 1

(***************************************************************************)
(* C8: when all 8 corner samples of the cube are air, subdivide_cube       *)
(* returns no cube and makes no recursive call and no leaf sample.         *)
(***************************************************************************)
C8_AllAirCornersReturnEmpty ==
    SubDone /\ n_air_cubes(field, sub_in.pos, sub_in.size \div 2) = 8 =>
        /\ sub_out.cubes = << >>
        /\ sub_out.calls = 0
        /\ sub_out.leaves = 0

C8_Witness ==
    /\ SubDone
    /\ n_air_cubes(field, sub_in.pos, sub_in.size \div 2) = 8
    /\ sub_in.size > SMALLEST_CUBE_SIZE
    /\ ~AirEverywhere(field)

(***************************************************************************)
(* C9: no recursive subdivide_cube call is given a size below the smallest *)
(* cube size, and from an initial size that is a power-of-two multiple of  *)
(* the smallest cube size the chain of nested recursive calls is at most   *)
(* log2(size / smallest) long, a length that is reached.                   *)
(***************************************************************************)
C9_RecursionDepthBounded ==
    SubDone =>
        /\ \A size \in sub_out.call_sizes : size >= SMALLEST_CUBE_SIZE
        /\ sub_out.depth <= Log2(sub_in.size \div SMALLEST_CUBE_SIZE)
        /\ sub_out.calls > 0 => sub_out.depth > 0

C9_Witness ==
    /\ SubDone
    /\ sub_in.size = Fx(CHUNK_SIZE)
    /\ sub_out.depth = Log2(Fx(CHUNK_SIZE) \div SMALLEST_CUBE_SIZE)
    /\ SMALLEST_CUBE_SIZE \in sub_out.call_sizes

(***************************************************************************)
(* C10 as stated: every Cube returned has a nominal size that is a         *)
(* power-of-two fraction of the initial size and is not smaller than the   *)
(* smallest cube size.                                                     *)
(***************************************************************************)
C10_CellSizeAtLeastSmallest ==
    SubDone =>
        \A cube \in Range(sub_out.cubes) :
            /\ PowerOfTwoFraction(NominalSize(cube), sub_in.size)
            /\ NominalSize(cube) >= SMALLEST_CUBE_SIZE

(***************************************************************************)
(* C10 as amended: every Cube returned has a nominal size that is a        *)
(* power-of-two fraction of the initial size and is not smaller than half  *)
(* the smallest cube size (the children sampled at the leaf level are      *)
(* rendered at half the smallest cube size).                               *)
(***************************************************************************)
C10_CellSizeAtLeastHalfSmallest ==
    SubDone =>
        \A cube \in Range(sub_out.cubes) :
            /\ cube.size = NominalSize(cube) * 1175
            /\ PowerOfTwoFraction(NominalSize(cube), sub_in.size)
            /\ 2 * NominalSize(cube) >= SMALLEST_CUBE_SIZE

C10_Witness ==
    /\ SubDone
    /\ sub_in.size = Fx(CHUNK_SIZE)
    /\ \E cube \in Range(sub_out.cubes) : 2 * NominalSize(cube) = SMALLEST_CUBE_SIZE
    /\ \E cube \in Range(sub_out.cubes) : NominalSize(cube) > SMALLEST_CUBE_SIZE

(***************************************************************************)
(* C11: for every non-empty cube list the index count is a multiple of 3,  *)
(* the triangle count cubes_mesh returns is the index count divided by 3,  *)
(* and every index is smaller than the length of the position buffer.      *)
(***************************************************************************)
C11_TrianglesAndIndexBounds ==
    /\ \A i \in 1..Len(mesh.indices) : mesh.indices[i] < Len(mesh.positions)
    /\ pc = "meshed" =>
           /\ Len(mesh.indices) % 3 = 0
           /\ 3 * mesh.n_triangles = Len(mesh.indices)

C11_Witness ==
    /\ pc = "meshed"
    /\ mesh.n_cubes = 2
    /\ mesh.n_triangles > 2
    /\ mesh.indices[Len(mesh.indices)] = Len(mesh.positions) - 1

(***************************************************************************)
(* C12: a generated chunk is classified as blocking exactly when none of   *)
(* the 8 corner samples of its chunk-sized subdivision call is air; a      *)
(* chunk with an air corner at the top level is never blocking.            *)
(***************************************************************************)
C12_BlockingIffTopCornersSolid ==
    SubDone /\ sub_in.size = Fx(CHUNK_SIZE) =>
        (is_blocking(chunk_of(field, sub_in.pos, sub_out.cubes))
            <=> n_air_cubes(field, sub_in.pos, sub_in.size \div 2) = 0)

C14_WithinEnvelope ==
    /\ \A c \in Range(rendered) \cup Range(queue) :
           /\ \A a \in 1..3 : abs(c[a]) <= RENDER_DISTANCE
           /\ c[1] * c[1] + c[2] * c[2] + c[3] * c[3] <= RENDER_DISTANCE * RENDER_DISTANCE
    /\ \A n \in visited : \E c \in Envelope : n = normalised(c)
    /\ \A n \in accessed : \A a \in 1..3 : n[a] \in 0..(2 * RENDER_DISTANCE)

C14_Witness ==
    /\ pc = "done"
    /\ <<RENDER_DISTANCE, 0, 0>> \in Range(popped)
    /\ normalised(<<0, 0, -RENDER_DISTANCE>>) \in visited
    /\ \E n \in accessed : n[1] = 2 * RENDER_DISTANCE /\ n[2] = RENDER_DISTANCE + 1
    /\ \E n \in accessed : n[3] = 0

(***************************************************************************)
(* C15: the visited set only grows over a run: a coordinate marked visited *)
(* stays visited in every later state of the same chunk_search call.       *)
(***************************************************************************)
C15_VisitedMonotonic == [][visited \subseteq visited']_vars

C15_Witness ==
    /\ Len(popped) > 2
    /\ normalised(<<1, 0, 0>>) \in visited
    /\ normalised(<<2, 0, 0>>) \in visited
    /\ Cardinality(visited) > 12

(***************************************************************************)
(* C16: for a cube with fewer than 8 empty corners, subdivide_cube returns *)
(* exactly one cell (the cube itself) without recursing if and only if the *)
(* number of empty corners is at most the threshold of its size: 4 at      *)
(* 0.25, 2 at 0.5, 1 at 1.0 and 0 at every larger size.  Otherwise it      *)
(* splits into its 8 children.                                             *)
(***************************************************************************)
C16_Threshold(size) ==
    CASE 4 * size = Fx(1) -> 4
      [] 2 * size = Fx(1) -> 2
      [] size = Fx(1) -> 1
      [] OTHER -> 0

C16_EmptyCorners == n_air_cubes(field, sub_in.pos, sub_in.size \div 2)

C16_OneCellUnsplit ==
    /\ Len(sub_out.cubes) = 1
    /\ sub_out.cubes[1].size = sub_in.size * 1175
    /\ sub_out.calls = 0
    /\ sub_out.leaves = 0

C16_Split ==
    IF below_leaf_size(sub_in.size \div 2)
    THEN sub_out.leaves = 8 /\ sub_out.calls = 0
    ELSE sub_out.calls >= 8 /\ sub_in.size \div 2 \in sub_out.call_sizes

C16_OneCellIffWithinThreshold ==
    SubDone /\ C16_EmptyCorners < 8 =>
        /\ C16_OneCellUnsplit <=> C16_EmptyCorners <= C16_Threshold(sub_in.size)
        /\ ~C16_OneCellUnsplit => C16_Split

\* a smallest cube with 4 empty corners is returned whole
C16_Witness ==
    /\ SubDone
    /\ 4 * sub_in.size = Fx(1)
    /\ C16_EmptyCorners = 4
    /\ C16_OneCellUnsplit

(***************************************************************************)
(* C17: when chunk_search completes, the reported total is the number of   *)
(* chunk coordinates generated during the run, the reported cube count is  *)
(* the sum of the cell counts of all generated chunks and the reported     *)
(* triangle count is the sum of their triangle counts.                     *)
(***************************************************************************)
\* chunk_render's result for the i-th call of the run
C17_Generated(i) == world[rendered[i]]

\* the sum of field key over the generated chunks lo..hi, by halves
RECURSIVE C17_Sum(_, _, _)
C17_Sum(key, lo, hi) ==
    IF lo > hi THEN 0
    ELSE IF lo = hi THEN C17_Generated(lo)[key]
    ELSE C17_Sum(key, lo, (lo + hi) \div 2) + C17_Sum(key, (lo + hi) \div 2 + 1, hi)

C17_TotalCountsGenerated ==
    pc = "done" =>
        /\ total = Len(rendered)
        /\ cubes = C17_Sum("n_cubes", 1, Len(rendered))
        /\ triangles = C17_Sum("n_triangles", 1, Len(rendered))

\* amended: the reported total is the number of generated chunks that have
\* at least one cell; the cube and triangle counts are sums over all
\* generated chunks
C17_TotalCountsNonEmpty ==
    pc = "done" =>
        /\ total = Cardinality({ i \in 1..Len(rendered) : C17_Generated(i).n_cubes > 0 })
        /\ cubes = C17_Sum("n_cubes", 1, Len(rendered))
        /\ triangles = C17_Sum("n_triangles", 1, Len(rendered))

C17_Witness ==
    /\ pc = "done"
    /\ total > 0
    /\ Len(rendered) > total
    /\ cubes > total
    /\ triangles > 0

(***************************************************************************)
(* C18: an invalid configuration (render distance <= 0, minimum cell size  *)
(* >= chunk size, or a chunk size that is not a power-of-two multiple of   *)
(* the minimum cell size) is rejected before any chunk is generated: under *)
(* it chunk_render is never called and exploration is never carried out.   *)
(***************************************************************************)
C18_Valid(c) ==
    /\ c.render_distance > 0
    /\ c.smallest_cube_size < Fx(c.chunk_size)
    /\ \E e \in 1..Log2(Fx(c.chunk_size)) :
           Fx(c.chunk_size) = c.smallest_cube_size * Pow2(e)

C18_InvalidConfigurationRejected ==
    pc = "config" /\ ~C18_Valid(config.cfg) =>
        /\ config.renders = 0
        /\ config.at # "explored"

(***************************************************************************)
(* C20: a ray-triangle test whose determinant is near zero yields "no      *)
(* intersection" as an ordinary value: the step that tests such a triangle *)
(* leaves closest_t and hit_face as they were and moves on to the next     *)
(* triangle, and when raycast_mesh returns every triangle of the group     *)
(* has been tested.                                                        *)
(***************************************************************************)
C20_NearZeroAt(r) ==
    /\ r.cursor <= 2 * Len(r.faces)
    /\ determinant_of(r, triangle_at(r, r.cursor)) = 0

C20_NearZeroIsOrdinaryMiss ==
    [][ /\ pc = "ray" /\ C20_NearZeroAt(rc) =>
            /\ ray_triangle_intersect(rc, triangle_at(rc, rc.cursor)) = None
            /\ pc' = "ray"
            /\ rc'.cursor = rc.cursor + 1
            /\ rc'.closest_t = rc.closest_t
            /\ rc'.hit_face = rc.hit_face
        /\ pc' = "returned" => rc'.tested = 2 * Len(rc'.faces) ]_vars

\* the first triangles are parallel to the ray and a later face is hit
C20_Witness ==
    /\ pc = "returned"
    /\ determinant_of(rc, triangle_at(rc, 1)) = 0
    /\ rc.skipped >= 2
    /\ rc.skipped < rc.tested
    /\ rc.hit_face # None
    /\ rc.closest_t # None

(***************************************************************************)
(* C21: the cell list subdivide_cube returns for a cube it splits does not *)
(* depend on the order in which the 8 concurrently run child calls finish: *)
(* it is always the cells of child 0, then of child 1, ... then of child   *)
(* 7, and what a child contributes depends on the field and the child's    *)
(* own cube only.                                                          *)
(***************************************************************************)
C21_ChildCells(i) == subdivide_child(field, par.cube_pos, par.cube_size, i).cubes

C22_SignCentres ==
    { << par.cube_pos[1] + s[1] * (par.cube_size \div 4),
         par.cube_pos[2] + s[2] * (par.cube_size \div 4),
         par.cube_pos[3] + s[3] * (par.cube_size \div 4) >> : s \in Signs \X Signs \X Signs }

C22_SolidAt(p) == ~get_data_3d(get_data_2d(field, p[1], p[3]), p[1], p[3], p[2])

C22_LeafChild(child) ==
    /\ child.calls = 0
    /\ child.leaves = 1
    /\ Len(child.cubes) = (IF C22_SolidAt(child.at) THEN 1 ELSE 0)
    /\ \A k \in 1..Len(child.cubes) :
           child.cubes[k] = render_cube(get_data_2d(field, child.at[1], child.at[3]),
                                        child.at, par.cube_size \div 2)

C22_EightChildrenAndLeafSamples ==
    pc = "par" =>
        /\ \A i \in par.done :
               /\ par.children[i].size = par.cube_size \div 2
               /\ par.children[i].at \in C22_SignCentres
               /\ \A j \in par.done : i # j => par.children[i].at # par.children[j].at
               /\ IF par.cube_size \div 2 < SMALLEST_CUBE_SIZE
                  THEN C22_LeafChild(par.children[i])
                  ELSE par.children[i].calls >= 1
        /\ par.at = "collected" =>
               { par.children[i].at : i \in 0..7 } = C22_SignCentres

\* a split smallest cube: one of its leaf children gave a cell, another none
C22_Witness ==
    /\ pc = "par"
    /\ par.at = "collected"
    /\ par.cube_size \div 2 < SMALLEST_CUBE_SIZE
    /\ \E i, j \in 0..7 : par.children[i].cubes # << >> /\ par.children[j].cubes = << >>

(***************************************************************************)
(* C23: when every coordinate of a wave is explored against the same       *)
(* snapshot of the visited set and the new_visited sets are merged only    *)
(* after the wave, no coordinate is generated more than once and no        *)
(* coordinate is pushed to the frontier more than once.                    *)
(***************************************************************************)
C23_NoRepeatsUnderWaves ==
    pc = "wave" => NoRepeats(wave.rendered) /\ NoRepeats(wave.pushed)

(***************************************************************************)
(* C26: the floor material influences neither occupancy nor colour: for    *)
(* two Data2D samples that differ only in floor_material, get_data_3d      *)
(* returns the same is-empty value and get_data_color the same colour and  *)
(* the same jittered position at every point.                              *)
(***************************************************************************)
C26_WithMaterial(m) == [ sample.data2d EXCEPT !.floor_material = m ]

C26_FloorMaterialHasNoInfluence ==
    pc = "sample" =>
        \A m \in FloorMaterial :
            /\ sample.at \in { "occupancy", "colour" } =>
                   get_data_3d(C26_WithMaterial(m), sample.x, sample.z, sample.y)
                       = sample.is_empty
            /\ sample.at = "colour" =>
                   get_data_color(C26_WithMaterial(m), sample.x, sample.z, sample.y)
                       = sample.data_color

\* a sand floor sampled below the floor line, where the disabled floor block
\* would have recoloured it
C26_Witness ==
    /\ pc = "sample"
    /\ sample.at = "colour"
    /\ sample.data2d.floor_material = "Sand"
    /\ sample.y < Fx((sample.data2d.room_floor - 4) * 4 - 2)
    /\ ~sample.is_empty

(***************************************************************************)
(* C27: when exploration has terminated, every coordinate inside the       *)
(* render-distance envelope that can be reached from the origin by a path  *)
(* of 6-neighbour steps whose intermediate coordinates are all inside the  *)
(* envelope and all non-blocking has been generated and is marked visited. *)
(***************************************************************************)
C27_Adjacent(c, n) ==
    abs(c[1] - n[1]) + abs(c[2] - n[2]) + abs(c[3] - n[3]) = 1

\* the coordinates a path may continue from: the origin, where every path
\* starts, and the coordinates whose chunk is not blocking
C27_Passable(c) == c = Origin \/ ~is_blocking(world[c])

RECURSIVE C27_Closure(_, _)
C27_Closure(seen, frontier) ==
    IF frontier = {} THEN seen
    ELSE LET next == { n \in Envelope \ seen :
                         \E c \in frontier : C27_Passable(c) /\ C27_Adjacent(c, n) }
         IN  C27_Closure(seen \cup next, next)

C27_Reachable == C27_Closure({ Origin }, { Origin })

C27_ReachableGeneratedAndVisited ==
    pc = "done" =>
        \A c \in C27_Reachable :
            c \in Range(rendered) /\ normalised(c) \in visited

(***************************************************************************)
(* C28: for a chunk whose subdivision returns no cells chunk_render        *)
(* returns no mesh, a triangle count of 0 and a cell count of 0, and       *)
(* cubes_mesh is never invoked with an empty cell list; conversely every   *)
(* chunk with at least one cell carries a mesh.                            *)
(***************************************************************************)
C28_EmptyChunkHasNoMesh ==
    \A i \in 1..Len(rendered) :
        \E chunk \in { world[rendered[i]] } :
            /\ chunk.n_cubes = 0 =>
                   ~chunk.mesh /\ chunk.n_triangles = 0 /\ chunk.mesh_calls = << >>
            /\ \A k \in 1..Len(chunk.mesh_calls) : chunk.mesh_calls[k] > 0
            /\ chunk.n_cubes >= 1 => chunk.mesh /\ chunk.mesh_calls = << chunk.n_cubes >>

\* a run has generated a chunk without cells and a chunk with cells
C28_Witness ==
    \E i, j \in 1..Len(rendered) :
        /\ world[rendered[i]].n_cubes = 0
        /\ ~world[rendered[i]].mesh
        /\ world[rendered[j]].n_cubes >= 1
        /\ world[rendered[j]].mesh

(***************************************************************************)
(* C30: in the 26-entry probe table the entries are pairwise distinct and  *)
(* each entry's offset agrees with the faces it lists: +off_x for Left,    *)
(* -off_x for Right, +off_y for Top, -off_y for Bottom, +off_z for Front,  *)
(* -off_z for Back, and 0 on every axis none of its faces lies on.         *)
(***************************************************************************)
C30_Off(axis) ==
    (cull.max_pos[axis] + cull.min_pos[axis]) \div 2
        + (3 * max(max(cull.max_pos[1] - cull.min_pos[1], cull.max_pos[2] - cull.min_pos[2]),
                   cull.max_pos[3] - cull.min_pos[3])) \div 2

C30_Along(listed, plus, minus, axis) ==
    IF plus \in listed THEN C30_Off(axis)
    ELSE IF minus \in listed THEN -C30_Off(axis)
    ELSE 0

C30_ProbeTableConsistent ==
    pc = "cull" =>
        /\ Len(cull.raycast_data) = 26
        /\ \A i, j \in 1..Len(cull.raycast_data) :
               i # j => Range(cull.raycast_data[i].faces) # Range(cull.raycast_data[j].faces)
        /\ \A i \in 1..Len(cull.raycast_data) :
               \E listed \in { Range(cull.raycast_data[i].faces) } :
                   cull.raycast_data[i].origin
                       = << C30_Along(listed, Left, Right, 1),
                            C30_Along(listed, Top, Bottom, 2),
                            C30_Along(listed, Front, Back, 3) >>

(***************************************************************************)
(* C24: every probe ray cast for a face is intersected only against the    *)
(* triangles of that face's own face-direction group; triangles of the     *)
(* other five direction groups can neither be hit by it nor block it.      *)
(***************************************************************************)
C24_OnlyOwnDirectionGroup ==
    (pc = "cull" /\ cull.last # None) =>
        /\ cull.last.against = { cull.last.face_index }
        /\ \A h \in cull.last.hits : h[1] = cull.last.face_index

(***************************************************************************)
(* C24 as it holds: every probe ray cast for a face is intersected only    *)
(* against the triangles of the face-direction groups listed by the probe  *)
(* table entry the ray is cast under, which are the face's own group and,  *)
(* in the entries of two and three directions, the other listed groups;    *)
(* triangles of the groups the entry does not list can neither be hit by   *)
(* it nor block it.                                                        *)
(***************************************************************************)
C24_OnlyListedDirectionGroups ==
    (pc = "cull" /\ cull.last # None) =>
        \E listed \in { Range(cull.raycast_data[cull.last.entry].faces) } :
            /\ cull.last.face_index \in listed
            /\ cull.last.against = listed
            /\ \A h \in cull.last.hits : h[1] \in listed

\* the rays of a face hit a face of another direction group of their entry
C24_Witness ==
    /\ pc = "cull"
    /\ cull.last # None
    /\ Cardinality(cull.last.against) = 3
    /\ \E h \in cull.last.hits : h[1] # cull.last.face_index

(***************************************************************************)
(* C25: a face is in the output of perform_raycasts if and only if for at  *)
(* least one probe ray the triangle with the smallest forward t (t above   *)
(* the threshold; the first in iteration order on ties) belongs to it.     *)
(***************************************************************************)
\* the triangles of faces the ray meets forward, as <<number, t>>
C25_Forward(ray, faces) ==
    { m \in { << k, ray_triangle_intersect(ray, faces[(k - 1) \div 2 + 1].tris[((k - 1) % 2) + 1]) >> :
                k \in 1..(2 * Len(faces)) } : m[2] # None }

C25_Before(a, b) == a.num * b.den < b.num * a.den

\* the faces owning the first triangle of smallest t: one face or none
C25_Nearest(ray, faces) ==
    UNION { { << faces[(m[1] - 1) \div 2 + 1].face_index, faces[(m[1] - 1) \div 2 + 1].index >> :
                m \in { a \in forward :
                          \A b \in forward :
                              /\ ~C25_Before(b[2], a[2])
                              /\ b[1] < a[1] => C25_Before(a[2], b[2]) } } :
            forward \in { C25_Forward(ray, faces) } }

\* the faces some probe ray of entry e has as its nearest
C25_NearestInEntry(e) ==
    UNION { UNION { C25_Nearest(probe_ray(cull.raycast_data[e].origin, faces[k].vertices[v]),
                                faces) : k \in 1..Len(faces), v \in 1..4 } :
            faces \in { cast_against(cull.raycast_data[e].faces, cull.cube_faces) } }

C25_NearestOfSomeRay == UNION { C25_NearestInEntry(e) : e \in 1..Len(cull.raycast_data) }

\* the last task has returned: hit_faces holds a face if and only if it is
\* the nearest of some ray; the output holds a face if and only if hit_faces
\* holds it
C25_OutputIffNearestOfSomeRay ==
    pc = "cull" =>
        /\ (cull.at = "casting" /\ cull.lo > cull.hi) =>
               \E nearest \in { C25_NearestOfSomeRay } :
                   \A i \in 1..6 : \A index \in 1..Len(cull.cubes) :
                       index \in cull.hit_faces[i] <=> << i, index >> \in nearest
        /\ cull.at = "culled" =>
               \A i \in 1..6 : \A index \in 1..Len(cull.cubes) :
                   (\E k \in 1..Len(cull.new_cube_faces[i]) :
                        cull.new_cube_faces[i][k] = index)
                       <=> index \in cull.hit_faces[i]

\* two cubes side by side: one face is in the output, its neighbour is not
C25_Witness ==
    /\ pc = "cull"
    /\ cull.at = "culled"
    /\ Len(cull.cubes) = 2
    /\ \E i \in 1..6 : Len(cull.new_cube_faces[i]) = 1

(***************************************************************************)
(* C29: culling only removes faces: per direction group the output faces   *)
(* are a duplicate-free subset of the faces generate_cube_faces built, one *)
(* per cell, so there are exactly 2 triangles per retained face and at     *)
(* most 12 triangles per input cell, and the retained set is the same for  *)
(* every scheduling of the parallel iterators.                             *)
(***************************************************************************)
\* what the tasks return, whatever the order they return in
C29_HitByAnyTask ==
    UNION { local_hit_faces(cull.raycast_data[cull.tasks[n][1]].origin,
                            cast_against(cull.raycast_data[cull.tasks[n][1]].faces,
                                         cull.cube_faces)[cull.tasks[n][2]],
                            cast_against(cull.raycast_data[cull.tasks[n][1]].faces,
                                         cull.cube_faces)) :
            n \in 1..Len(cull.tasks) }

C29_CullingOnlyRemovesFaces ==
    pc = "cull" =>
        /\ \A i \in 1..6 : cull.hit_faces[i] \subseteq 1..Len(cull.cube_faces[i])
        /\ (cull.at = "casting" /\ cull.lo > cull.hi) =>
               \E hit \in { C29_HitByAnyTask } :
                   \A i \in 1..6 : cull.hit_faces[i] = { h[2] : h \in { g \in hit : g[1] = i } }
        /\ cull.at = "culled" =>
             /\ \A i \in 1..6 :
                    /\ NoRepeats(cull.new_cube_faces[i])
                    /\ Range(cull.new_cube_faces[i]) \subseteq 1..Len(cull.cube_faces[i])
                    /\ Len(cull.cube_faces[i]) = Len(cull.cubes)
             /\ cull.n_triangles
                    = 2 * (Len(cull.new_cube_faces[1]) + Len(cull.new_cube_faces[2])
                           + Len(cull.new_cube_faces[3]) + Len(cull.new_cube_faces[4])
                           + Len(cull.new_cube_faces[5]) + Len(cull.new_cube_faces[6]))
             /\ cull.n_triangles <= 12 * Len(cull.cubes)
             /\ \A i \in 1..6 : Range(cull.new_cube_faces[i]) = cull.hit_faces[i]

\* tasks returned out of order and a face of two cubes was removed
C29_Witness ==
    /\ pc = "cull"
    /\ cull.at = "culled"
    /\ cull.out_of_order
    /\ Len(cull.cubes) = 2
    /\ cull.n_triangles < 12 * Len(cull.cubes)
    /\ cull.n_triangles > 0

====
